---- MODULE Spec2Model ----
(***************************************************************************)
(* A model of the accident dashboard of lemoonchild/Lab11_DS.               *)
(*                                                                         *)
(* Part 1 (Spec): one Streamlit session of dashboard.py. A script run is    *)
(* the sequence of steps main() takes from the sidebar to the last view;    *)
(* pc is the position of the run. The three cross-filter slots live in      *)
(* st.session_state, the selector widgets keep their own values, and each   *)
(* view records the slot value it was drawn with.                          *)
(*                                                                         *)
(* Part 2 (SpecNorm): the cleaning functions of preprocesamiento_datos.py   *)
(* as operators over small raw tables.                                     *)
(*                                                                         *)
(* Part 3 (SpecMain): main() of preprocesamiento_datos.py, which reads the  *)
(* nine raw files, cleans them in order and writes the cleaned files.       *)
(*                                                                         *)
(* Part 4 (SpecVis): the view functions of dashboard.py that aggregate a    *)
(* cleaned table, as operators over the records the cleaning functions      *)
(* return, and the functions of modelos_tab.py that draw a confusion       *)
(* matrix and build the comparison table, as operators over the metrics    *)
(* loaded from the artifact.                                               *)
(***************************************************************************)
EXTENDS Integers, Sequences, FiniteSets, TLC

VARIABLES
    \* st.session_state: the three cross-filter slots
    departamento_seleccionado,
    tipo_accidente_seleccionado,
    tipo_vehiculo_seleccionado,
    \* widget values (Streamlit keeps them per session, by key)
    selector_depto,
    selector_tipo,
    selector_veh,
    mostrar_vis,
    deptos_seleccionados,
    resetear,            \* the value st.button returns in the current run
    origen,              \* what started the current run
    \* the script run
    pc,
    \* what each view of the current run was drawn with
    info_sidebar,
    vis1_resaltado,
    vis2_depto,
    vis3_resaltado,
    vis3_1_tipo,
    vis5_resaltado,
    vis_modelos,         \* what the models tab shows
    error_datos,         \* whether cargar_datos reported missing files
    \* which files exist: the cleaned tables of ./data_clean and the metrics
    \* of ./models/resumen_modelos.json
    archivos,
    \* preprocesamiento_datos.py: the raw table, the step and the outcome
    df,
    cuadro,
    npc,
    salida,
    salida2,             \* the outcome of a second call on the same table
    \* preprocesamiento_datos.py, main(): the raw files, the position of the
    \* run, the cleaned tables it holds and the files it has written
    crudos,
    mpc,
    limpios,
    data_clean,
    \* dashboard.py: a call of one view function: its name, the cleaned tables
    \* and arguments it is given, its position and what it returns
    vista,
    tabla,
    arg,
    vpc,
    fig

slots == <<departamento_seleccionado, tipo_accidente_seleccionado,
           tipo_vehiculo_seleccionado>>
widgets == <<selector_depto, selector_tipo, selector_veh, mostrar_vis,
             deptos_seleccionados, resetear, origen>>
vistas == <<info_sidebar, vis1_resaltado, vis2_depto, vis3_resaltado,
            vis3_1_tipo, vis5_resaltado, vis_modelos, error_datos>>
norm == <<df, cuadro, npc, salida, salida2>>
prep == <<crudos, mpc, limpios, data_clean>>
llamada_vista == <<vista, tabla, arg, vpc, fig>>
\* the state of one dashboard session
dash == <<slots, widgets, pc, vistas, archivos>>
vars == <<dash, norm, prep, llamada_vista>>

----------------------------------------------------------------------------
(* Values *)

\* Python's None
None == "None"
\* the first option of every selector
Ninguno == "Ninguno"
\* a view that the current run has not drawn
SinDibujar == "-"
\* the sidebar's list of active selections before the run reaches it
SinInfo == <<SinDibujar, SinDibujar, SinDibujar>>

\* the departments of df_dept (the year's rows of the cleaned table)
DEPTOS == {"Guatemala", "Escuintla"}
\* the accident types crear_vis3_top_tipos returns
TIPOS == {"colision", "atropello"}
\* the vehicle types crear_vis5_vehiculos returns
VEHICULOS == {"automovil", "motocicleta"}

\* The options of 'Mostrar graficas' whose views read or write a slot. The
\* other four (Heatmap, Fallecidos vs Lesionados, Tabla Resumen, Edad) guard
\* views that touch no slot.
VIS_OPCIONES == {"Todas", "Distribucion Departamental", "Serie Temporal",
                 "Top Tipos", "Vehiculos"}

\* the values st.multiselect can return for the sidebar's department list:
\* the chosen departments in the order they were chosen
ListasDeptos == {<<>>} \cup {<<d>> : d \in DEPTOS}
                \cup {<<d, e>> : <<d, e>> \in {p \in DEPTOS \X DEPTOS : p[1] # p[2]}}

\* deptos_defecto filtered by todos_deptos, in the order of deptos_defecto
deptos_disponibles == <<"Guatemala", "Escuintla">>

----------------------------------------------------------------------------
(* dashboard.py: helpers of main() *)

mostrar_todas == "Todas" \in mostrar_vis

\* the guards of the views
VeDistribucion == mostrar_todas \/ "Distribucion Departamental" \in mostrar_vis
VeSerie == mostrar_todas \/ "Serie Temporal" \in mostrar_vis
VeTopTipos == mostrar_todas \/ "Top Tipos" \in mostrar_vis
VeVehiculos == mostrar_todas \/ "Vehiculos" \in mostrar_vis

\* if x_click != 'Ninguno': slot = x_click else: slot = None
ValorDeSelector(click) == IF click # Ninguno THEN click ELSE None

NuevaCorrida ==
    /\ info_sidebar' = SinInfo
    /\ vis1_resaltado' = SinDibujar
    /\ vis2_depto' = SinDibujar
    /\ vis3_resaltado' = SinDibujar
    /\ vis3_1_tipo' = SinDibujar
    /\ vis5_resaltado' = SinDibujar
    /\ vis_modelos' = SinDibujar
    /\ error_datos' = FALSE

----------------------------------------------------------------------------
(* Init: a new session. Lines 39-46 create the three slots as None, every   *)
(* widget has its default, and the first script run starts.                *)

InitDash ==
    /\ departamento_seleccionado = None
    /\ tipo_accidente_seleccionado = None
    /\ tipo_vehiculo_seleccionado = None
    /\ selector_depto = Ninguno
    /\ selector_tipo = Ninguno
    /\ selector_veh = Ninguno
    /\ mostrar_vis = {"Todas"}
    /\ deptos_seleccionados = deptos_disponibles
    /\ resetear = FALSE
    /\ origen = "inicio"
    /\ pc = "cargar"
    /\ archivos \in [limpios : BOOLEAN, metricas : BOOLEAN]
    /\ info_sidebar = SinInfo
    /\ vis1_resaltado = SinDibujar
    /\ vis2_depto = SinDibujar
    /\ vis3_resaltado = SinDibujar
    /\ vis3_1_tipo = SinDibujar
    /\ vis5_resaltado = SinDibujar
    /\ vis_modelos = SinDibujar
    /\ error_datos = FALSE

\* the dashboard, not running, beside a run of another program
DashQuieto == InitDash /\ archivos = [limpios |-> TRUE, metricas |-> TRUE]

NormQuieto ==
    /\ df = [columns |-> {}, filas |-> <<>>]
    /\ cuadro = "ninguno"
    /\ npc = "quieto"
    /\ salida = [estado |-> "pendiente", registros |-> <<>>]
    /\ salida2 = [estado |-> "pendiente", registros |-> <<>>]

PrepQuieto ==
    /\ crudos = <<>>
    /\ mpc = [fase |-> "quieto", i |-> 0]
    /\ limpios = <<>>
    /\ data_clean = <<>>

VistaQuieta ==
    /\ vista = "ninguna"
    /\ tabla = <<>>
    /\ arg = <<>>
    /\ vpc = "quieto"
    /\ fig = [estado |-> "pendiente"]

----------------------------------------------------------------------------
(* The user: an interaction with a widget of the page starts a new script   *)
(* run. When it arrives while a run is under way, that run stops at its     *)
(* next access to st.session_state or call of an st. function and the new  *)
(* run starts. The model follows such an interruption inside the reset      *)
(* handler, the one place where a run writes several slots; origen records *)
(* an interaction that cut the handler between its assignments.            *)

\* where a run can be when an interaction starts the next one
PuntosDeInteraccion == {"idle", "reset_tipo", "reset_veh"}

Interaccion ==
    /\ archivos.limpios
    /\ pc \in PuntosDeInteraccion
    /\ pc' = "cargar"
    /\ origen' = IF pc \in {"reset_tipo", "reset_veh"} THEN "widget_en_reset"
                 ELSE "widget"
    /\ NuevaCorrida
    /\ UNCHANGED <<slots, archivos, norm, prep, llamada_vista>>

ElegirDepto ==
    /\ Interaccion
    /\ VeDistribucion
    /\ \E v \in ({Ninguno} \cup DEPTOS) \ {selector_depto} : selector_depto' = v
    /\ resetear' = FALSE
    /\ UNCHANGED <<selector_tipo, selector_veh, mostrar_vis, deptos_seleccionados>>

ElegirTipo ==
    /\ Interaccion
    /\ VeTopTipos
    /\ \E v \in ({Ninguno} \cup TIPOS) \ {selector_tipo} : selector_tipo' = v
    /\ resetear' = FALSE
    /\ UNCHANGED <<selector_depto, selector_veh, mostrar_vis, deptos_seleccionados>>

ElegirVeh ==
    /\ Interaccion
    /\ VeVehiculos
    /\ \E v \in ({Ninguno} \cup VEHICULOS) \ {selector_veh} : selector_veh' = v
    /\ resetear' = FALSE
    /\ UNCHANGED <<selector_depto, selector_tipo, mostrar_vis, deptos_seleccionados>>

CambiarMostrar ==
    /\ Interaccion
    /\ \E S \in (SUBSET VIS_OPCIONES) \ {mostrar_vis} : mostrar_vis' = S
    /\ resetear' = FALSE
    /\ UNCHANGED <<selector_depto, selector_tipo, selector_veh, deptos_seleccionados>>

CambiarDeptos ==
    /\ Interaccion
    /\ \E l \in ListasDeptos \ {deptos_seleccionados} : deptos_seleccionados' = l
    /\ resetear' = FALSE
    /\ UNCHANGED <<selector_depto, selector_tipo, selector_veh, mostrar_vis>>

ClickReset ==
    /\ Interaccion
    /\ resetear' = TRUE
    /\ UNCHANGED <<selector_depto, selector_tipo, selector_veh, mostrar_vis,
                   deptos_seleccionados>>

----------------------------------------------------------------------------
(* main(): the script run, in the order of the source *)

Paso(de, a) ==
    /\ pc = de
    /\ pc' = a
    /\ UNCHANGED <<widgets, archivos, norm, prep, llamada_vista>>

\* 601-603, cargar_datos (49-69): when a cleaned file is missing the function
\* shows an error and st.stop() ends the run before any widget or view; the
\* widgets the run did not reach are back at their defaults.
Cargar ==
    /\ pc = "cargar"
    /\ IF archivos.limpios
       THEN /\ Paso("cargar", "sidebar")
            /\ UNCHANGED <<slots, vistas>>
       ELSE /\ pc' = "idle"
            /\ error_datos' = TRUE
            /\ selector_depto' = Ninguno
            /\ selector_tipo' = Ninguno
            /\ selector_veh' = Ninguno
            /\ mostrar_vis' = {"Todas"}
            /\ deptos_seleccionados' = deptos_disponibles
            /\ UNCHANGED <<slots, resetear, origen, info_sidebar, vis1_resaltado,
                           vis2_depto, vis3_resaltado, vis3_1_tipo, vis5_resaltado,
                           vis_modelos, archivos, norm, prep, llamada_vista>>

\* 661: if st.button(...) is true the run goes into the reset branch;
\* 667-673: otherwise the sidebar lists the active selections.
Sidebar ==
    /\ pc = "sidebar"
    /\ IF resetear
       THEN /\ Paso("sidebar", "reset_depto")
            /\ UNCHANGED <<slots, vistas>>
       ELSE /\ Paso("sidebar", "vis1")
            /\ info_sidebar' = <<departamento_seleccionado,
                                 tipo_accidente_seleccionado,
                                 tipo_vehiculo_seleccionado>>
            /\ UNCHANGED <<slots, vis1_resaltado, vis2_depto, vis3_resaltado,
                           vis3_1_tipo, vis5_resaltado, vis_modelos, error_datos>>

\* 662
ResetDepto ==
    /\ Paso("reset_depto", "reset_tipo")
    /\ departamento_seleccionado' = None
    /\ UNCHANGED <<tipo_accidente_seleccionado, tipo_vehiculo_seleccionado, vistas>>

\* 663
ResetTipo ==
    /\ Paso("reset_tipo", "reset_veh")
    /\ tipo_accidente_seleccionado' = None
    /\ UNCHANGED <<departamento_seleccionado, tipo_vehiculo_seleccionado, vistas>>

\* 664
ResetVeh ==
    /\ Paso("reset_veh", "rerun")
    /\ tipo_vehiculo_seleccionado' = None
    /\ UNCHANGED <<departamento_seleccionado, tipo_accidente_seleccionado, vistas>>

\* What a selector holds in the run that follows st.rerun(). The interrupted
\* run stopped above the three selectors. The script assigns no selector key,
\* so the value is whatever Streamlit keeps for a widget that the interrupted
\* run did not reach: the value it had, or the default once its state was
\* discarded. Both outcomes are kept.
TrasRerun(valor) == {valor, Ninguno}

\* 665: st.rerun() ends this run and starts the next one; the button is a
\* trigger and reads False again.
Rerun ==
    /\ pc = "rerun"
    /\ pc' = "cargar"
    /\ resetear' = FALSE
    /\ origen' = "rerun"
    /\ selector_depto' \in TrasRerun(selector_depto)
    /\ selector_tipo' \in TrasRerun(selector_tipo)
    /\ selector_veh' \in TrasRerun(selector_veh)
    /\ NuevaCorrida
    /\ UNCHANGED <<slots, mostrar_vis, deptos_seleccionados, archivos, norm, prep,
                   llamada_vista>>

\* A variant of Vis1 that empties the slot when the department chart is
\* hidden.
Vis1_oculta_vacia ==
    /\ pc = "vis1"
    /\ IF VeDistribucion
       THEN /\ Paso("vis1", "selector_depto")
            /\ vis1_resaltado' = departamento_seleccionado
            /\ UNCHANGED departamento_seleccionado
       ELSE /\ Paso("vis1", "vis2")
            /\ departamento_seleccionado' = None
            /\ UNCHANGED vis1_resaltado
    /\ UNCHANGED <<tipo_accidente_seleccionado, tipo_vehiculo_seleccionado,
                   info_sidebar, vis2_depto, vis3_resaltado, vis3_1_tipo,
                   vis5_resaltado, vis_modelos, error_datos>>

\* 684-687: crear_vis1_departamentos reads the slot (line 91) to paint the
\* selected department's bar.
Vis1 ==
    /\ pc = "vis1"
    /\ IF VeDistribucion
       THEN /\ Paso("vis1", "selector_depto")
            /\ vis1_resaltado' = departamento_seleccionado
       ELSE /\ Paso("vis1", "vis2")
            /\ UNCHANGED vis1_resaltado
    /\ UNCHANGED <<slots, info_sidebar, vis2_depto, vis3_resaltado, vis3_1_tipo,
                   vis5_resaltado, vis_modelos, error_datos>>

\* A variant of SelectorDepto without the else branch of 697-698: choosing
\* 'Ninguno' leaves the slot as it was.
SelectorDepto_sinElse ==
    /\ Paso("selector_depto", "vis2")
    /\ departamento_seleccionado' =
          (IF selector_depto # Ninguno THEN selector_depto
           ELSE departamento_seleccionado)
    /\ UNCHANGED <<tipo_accidente_seleccionado, tipo_vehiculo_seleccionado, vistas>>

\* 689-698
SelectorDepto ==
    /\ Paso("selector_depto", "vis2")
    /\ departamento_seleccionado' = ValorDeSelector(selector_depto)
    /\ UNCHANGED <<tipo_accidente_seleccionado, tipo_vehiculo_seleccionado, vistas>>

\* 702-719: the time series is built only when the view is shown and the
\* sidebar list is not empty; it gets the slot as depto_desde_vis1.
Vis2 ==
    /\ Paso("vis2", "selector_tipo")
    /\ IF VeSerie /\ deptos_seleccionados # <<>>
       THEN vis2_depto' = departamento_seleccionado
       ELSE UNCHANGED vis2_depto
    /\ UNCHANGED <<slots, info_sidebar, vis1_resaltado, vis3_resaltado, vis3_1_tipo,
                   vis5_resaltado, vis_modelos, error_datos>>

\* 724-750: fig3_temp (737) is built only for its list of types and is not
\* drawn; then the selector writes the slot.
SelectorTipo ==
    /\ pc = "selector_tipo"
    /\ IF VeTopTipos
       THEN /\ Paso("selector_tipo", "vis3")
            /\ tipo_accidente_seleccionado' = ValorDeSelector(selector_tipo)
       ELSE /\ Paso("selector_tipo", "selector_veh")
            /\ UNCHANGED tipo_accidente_seleccionado
    /\ UNCHANGED <<departamento_seleccionado, tipo_vehiculo_seleccionado, vistas>>

\* 752-753: fig3 is built again, after the assignment, and drawn; line 222
\* reads the slot.
Vis3 ==
    /\ Paso("vis3", "evolucion")
    /\ vis3_resaltado' = tipo_accidente_seleccionado
    /\ UNCHANGED <<slots, info_sidebar, vis1_resaltado, vis2_depto, vis3_1_tipo,
                   vis5_resaltado, vis_modelos, error_datos>>

\* 755-767
Evolucion ==
    /\ Paso("evolucion", "selector_veh")
    /\ vis3_1_tipo' = tipo_accidente_seleccionado
    /\ UNCHANGED <<slots, info_sidebar, vis1_resaltado, vis2_depto, vis3_resaltado,
                   vis5_resaltado, vis_modelos, error_datos>>

\* A variant of SelectorVeh that also empties the accident-type slot.
SelectorVeh_limpiaTipo ==
    /\ pc = "selector_veh"
    /\ IF VeVehiculos
       THEN /\ Paso("selector_veh", "vis5")
            /\ tipo_vehiculo_seleccionado' = ValorDeSelector(selector_veh)
       ELSE /\ Paso("selector_veh", "tab4")
            /\ UNCHANGED tipo_vehiculo_seleccionado
    /\ tipo_accidente_seleccionado' = None
    /\ UNCHANGED <<departamento_seleccionado, vistas>>

\* 783-797: fig5_temp (786) is not drawn; the selector writes the slot.
SelectorVeh ==
    /\ pc = "selector_veh"
    /\ IF VeVehiculos
       THEN /\ Paso("selector_veh", "vis5")
            /\ tipo_vehiculo_seleccionado' = ValorDeSelector(selector_veh)
       ELSE /\ Paso("selector_veh", "tab4")
            /\ UNCHANGED tipo_vehiculo_seleccionado
    /\ UNCHANGED <<departamento_seleccionado, tipo_accidente_seleccionado, vistas>>

\* 799-805: fig5 is built again, after the assignment, and drawn; line 385
\* reads the slot.
Vis5 ==
    /\ Paso("vis5", "tab4")
    /\ vis5_resaltado' = tipo_vehiculo_seleccionado
    /\ UNCHANGED <<slots, info_sidebar, vis1_resaltado, vis2_depto, vis3_resaltado,
                   vis3_1_tipo, vis_modelos, error_datos>>

\* 842-844, render_modelos_tab (modelos_tab.py 388-393): the last tab. When
\* the metrics file is missing, cargar_metricas_modelos returns None, the tab
\* shows an error and the function returns.
Tab4 ==
    /\ Paso("tab4", "fin")
    /\ vis_modelos' = IF archivos.metricas THEN "modelos" ELSE "error"
    /\ UNCHANGED <<slots, info_sidebar, vis1_resaltado, vis2_depto, vis3_resaltado,
                   vis3_1_tipo, vis5_resaltado, error_datos>>

\* The run ends. Streamlit discards the state of a keyed widget whose
\* function the run did not call: a selector of a hidden view is back at its
\* first option when the view is shown again.
FinCorrida ==
    /\ pc = "fin"
    /\ pc' = "idle"
    /\ selector_depto' = IF VeDistribucion THEN selector_depto ELSE Ninguno
    /\ selector_tipo' = IF VeTopTipos THEN selector_tipo ELSE Ninguno
    /\ selector_veh' = IF VeVehiculos THEN selector_veh ELSE Ninguno
    /\ UNCHANGED <<slots, mostrar_vis, deptos_seleccionados, resetear, origen, vistas,
                   archivos, norm, prep, llamada_vista>>

NextDash ==
    \/ ElegirDepto \/ ElegirTipo \/ ElegirVeh
    \/ CambiarMostrar \/ CambiarDeptos \/ ClickReset
    \/ Cargar \/ Sidebar \/ ResetDepto \/ ResetTipo \/ ResetVeh \/ Rerun
    \/ Vis1 \/ SelectorDepto \/ Vis2 \/ SelectorTipo \/ Vis3 \/ Evolucion
    \/ SelectorVeh \/ Vis5 \/ Tab4 \/ FinCorrida

----------------------------------------------------------------------------
(* preprocesamiento_datos.py: values *)

\* A cell of a value column as pd.read_csv delivers it: a number, a missing
\* value (NaN), or text that is no number ("abc").
Num(n) == [t |-> "int", v |-> n]
NaN == [t |-> "nan", v |-> 0]
Texto == [t |-> "str", v |-> 0]

\* value_vars of limpiar_cuadro1, limpiar_cuadro31, limpiar_cuadro47
ANIOS == <<"2020", "2021", "2022", "2023", "2024">>
\* value_vars of limpiar_cuadro3, limpiar_cuadro7
DIAS == <<"lunes", "martes", "miercoles", "jueves", "viernes", "sabado", "domingo">>
\* value_vars of limpiar_cuadro9, limpiar_cuadro18
TIPOS_ACCIDENTE == <<"colision", "atropello", "derrape", "choque", "vuelco",
                     "embarranco", "encuneto", "caida", "ignorado">>

\* int() of a year column name
AnioInt(c) == CASE c = "2020" -> 2020 [] c = "2021" -> 2021 [] c = "2022" -> 2022
                [] c = "2023" -> 2023 [] c = "2024" -> 2024

\* The hour labels are text the code searches with a regular expression, so
\* the identifier values of cuadro 7 are kept as sequences of characters.
TxtTotal == <<"T", "o", "t", "a", "l">>
TxtIgnorada == <<"I", "g", "n", "o", "r", "a", "d", "a">>
TxtHora00 == <<"0", "0", ":", "0", "0", " ", "a", " ", "0", "0", ":", "5", "9">>
TxtHora05 == <<"0", "5", ":", "0", "0", " ", "a", " ", "0", "5", ":", "5", "9">>
TxtHora23 == <<"2", "3", ":", "0", "0", " ", "a", " ", "2", "3", ":", "5", "9">>
TxtNoche == <<"N", "o", "c", "h", "e">>

Rango(s) == {s[i] : i \in DOMAIN s}

RECURSIVE Aplanar(_)
Aplanar(ss) == IF ss = <<>> THEN <<>> ELSE Head(ss) \o Aplanar(Tail(ss))

----------------------------------------------------------------------------
(* pandas, as the cleaning functions use it. A DataFrame is                 *)
(* [columns: the set of column names, filas: the sequence of rows], a row  *)
(* a function from the column names to cells. An operation that raises     *)
(* yields no DataFrame; the callers test its precondition first.           *)

\* A variant of Filtrar that takes the aggregate row to be the last row of the
\* table and removes only that one.
Filtrar_ultima(t, col, valor) ==
    [columns |-> t.columns,
     filas |-> IF t.filas # <<>> /\ t.filas[Len(t.filas)][col] = valor
               THEN SubSeq(t.filas, 1, Len(t.filas) - 1)
               ELSE t.filas]

\* df[df[col] != valor]
Filtrar(t, col, valor) ==
    [columns |-> t.columns,
     filas |-> SelectSeq(t.filas, LAMBDA f : f[col] # valor)]

\* if col in df.columns: df = df.drop(col, axis=1)
DropSiExiste(t, col) ==
    IF col \in t.columns
    THEN [columns |-> t.columns \ {col},
          filas |-> [i \in DOMAIN t.filas |->
                        [c \in t.columns \ {col} |-> t.filas[i][c]]]]
    ELSE t

\* for col in columnas_eliminar: if col in df.columns: df = df.drop(col, axis=1)
RECURSIVE DropVarias(_, _)
DropVarias(t, cols) ==
    IF cols = <<>> THEN t ELSE DropVarias(DropSiExiste(t, Head(cols)), Tail(cols))

\* df.melt raises KeyError unless every id_vars and value_vars column exists
MeltPosible(t, id_vars, value_vars) ==
    (Rango(id_vars) \cup Rango(value_vars)) \subseteq t.columns

\* A variant of melt that leaves out the last value column.
Melt_sin_ultima(t, id_vars, value_vars, var_name, value_name) ==
    LET campos == Rango(id_vars) \cup {var_name, value_name}
        reg(f, col) == [c \in campos |->
                          IF c = var_name THEN col
                          ELSE IF c = value_name THEN f[col]
                          ELSE f[c]]
    IN  Aplanar([k \in 1..(Len(value_vars) - 1) |->
                   [i \in DOMAIN t.filas |-> reg(t.filas[i], value_vars[k])]])

\* df.melt(id_vars, value_vars, var_name, value_name): for each value column,
\* in the order of value_vars, one record per row, in the order of the rows
Melt(t, id_vars, value_vars, var_name, value_name) ==
    LET campos == Rango(id_vars) \cup {var_name, value_name}
        reg(f, col) == [c \in campos |->
                          IF c = var_name THEN col
                          ELSE IF c = value_name THEN f[col]
                          ELSE f[c]]
    IN  Aplanar([k \in DOMAIN value_vars |->
                   [i \in DOMAIN t.filas |-> reg(t.filas[i], value_vars[k])]])

\* df_long.drop(col, axis=1) on the records
DropCampo(regs, col) ==
    [i \in DOMAIN regs |-> [c \in (DOMAIN regs[i]) \ {col} |-> regs[i][c]]]

\* df_long[campo] = df_long[campo].astype(int) on the year names
AnioAstypeInt(regs, campo) ==
    [i \in DOMAIN regs |-> [regs[i] EXCEPT ![campo] = AnioInt(@)]]

\* df_long.dropna(subset=[campo])
Dropna(regs, campo) == SelectSeq(regs, LAMBDA r : r[campo] # NaN)

\* astype(int) raises ValueError on text that is no number
AstypeIntPosible(regs, campo) == \A i \in DOMAIN regs : regs[i][campo].t = "int"

\* astype(int) on numbers
AstypeInt(regs, campo) ==
    [i \in DOMAIN regs |-> [regs[i] EXCEPT ![campo] = Num(@.v)]]

\* The outcome of a cleaning function: the records it returns, or the
\* exception it raises (and then no records).
Ok(regs) == [estado |-> "ok", registros |-> regs]
Raise(e) == [estado |-> e, registros |-> <<>>]

\* str.extract('(\d+):'): the first run of digits that a colon follows, or
\* NaN when the label holds none
Digitos == {"0", "1", "2", "3", "4", "5", "6", "7", "8", "9"}

DigitoInt(c) == CASE c = "0" -> 0 [] c = "1" -> 1 [] c = "2" -> 2 [] c = "3" -> 3
                  [] c = "4" -> 4 [] c = "5" -> 5 [] c = "6" -> 6 [] c = "7" -> 7
                  [] c = "8" -> 8 [] c = "9" -> 9

RECURSIVE DecimalInt(_)
DecimalInt(ds) ==
    IF ds = <<>> THEN 0
    ELSE 10 * DecimalInt(SubSeq(ds, 1, Len(ds) - 1)) + DigitoInt(ds[Len(ds)])

\* A variant for the pattern '(\d):', which captures one digit.
StrExtractHora_un_digito(s) ==
    LET inicios == {i \in DOMAIN s : s[i] \in Digitos /\ i + 1 <= Len(s) /\ s[i + 1] = ":"}
    IN  IF inicios = {} THEN NaN
        ELSE Num(DigitoInt(s[CHOOSE x \in inicios : \A y \in inicios : x <= y]))

StrExtractHora(s) ==
    LET coincide(i, j) == /\ \A k \in i..j : s[k] \in Digitos
                          /\ j + 1 <= Len(s)
                          /\ s[j + 1] = ":"
        inicios == {i \in DOMAIN s : \E j \in i..Len(s) : coincide(i, j)}
    IN  IF inicios = {} THEN NaN
        ELSE LET i == CHOOSE x \in inicios : \A y \in inicios : x <= y
                 j == CHOOSE x \in i..Len(s) : coincide(i, x)
             IN  Num(DecimalInt(SubSeq(s, i, j)))

\* meses_dict of limpiar_cuadro9; Series.map gives NaN for any other name
meses_dict(m) ==
    CASE m = "Enero" -> Num(1) [] m = "Febrero" -> Num(2) [] m = "Marzo" -> Num(3)
      [] m = "Abril" -> Num(4) [] m = "Mayo" -> Num(5) [] m = "Junio" -> Num(6)
      [] m = "Julio" -> Num(7) [] m = "Agosto" -> Num(8)
      [] m = "Septiembre" -> Num(9) [] m = "Octubre" -> Num(10)
      [] m = "Noviembre" -> Num(11) [] m = "Diciembre" -> Num(12)
      [] OTHER -> NaN

\* df_long[nuevo] = serie: one value of the series per record
ConCampo(regs, nuevo, serie) ==
    [i \in DOMAIN regs |->
        [c \in (DOMAIN regs[i]) \cup {nuevo} |->
            IF c = nuevo THEN serie[i] ELSE regs[i][c]]]

----------------------------------------------------------------------------
(* preprocesamiento_datos.py: the cleaning functions *)

\* limpiar_cuadro1, limpiar_cuadro31 and limpiar_cuadro47 differ in the name
\* of the measure and in the columns they drop.
LimpiarAnioDepto(t, eliminar, medida) ==
    IF "departamento" \notin t.columns THEN Raise("KeyError")
    ELSE LET d1 == Filtrar(t, "departamento", "Total")
             d2 == DropVarias(d1, eliminar)
         IN  IF ~MeltPosible(d2, <<"departamento">>, ANIOS) THEN Raise("KeyError")
             ELSE LET l1 == Melt(d2, <<"departamento">>, ANIOS, "anio", medida)
                      l2 == AnioAstypeInt(l1, "anio")
                      l3 == Dropna(l2, medida)
                  IN  IF ~AstypeIntPosible(l3, medida) THEN Raise("ValueError")
                      ELSE Ok(AstypeInt(l3, medida))

\* A variant of limpiar_cuadro1 that unrolls the year columns the table has
\* and skips the others.
limpiar_cuadro1_tolerante(t) ==
    IF "departamento" \notin t.columns THEN Raise("KeyError")
    ELSE LET d2 == DropSiExiste(Filtrar(t, "departamento", "Total"), "fuente_cuadro")
             l3 == Dropna(AnioAstypeInt(
                       Melt(d2, <<"departamento">>,
                            SelectSeq(ANIOS, LAMBDA c : c \in d2.columns),
                            "anio", "accidentes"), "anio"), "accidentes")
         IN  IF ~AstypeIntPosible(l3, "accidentes") THEN Raise("ValueError")
             ELSE Ok(AstypeInt(l3, "accidentes"))

limpiar_cuadro1(t) == LimpiarAnioDepto(t, <<"fuente_cuadro">>, "accidentes")

limpiar_cuadro31(t) == LimpiarAnioDepto(t, <<"fuente_cuadro">>, "lesionados")

limpiar_cuadro47(t) ==
    LimpiarAnioDepto(t, <<"fuente_cuadro", "Unnamed: 6", "col_10">>, "fallecidos")

limpiar_cuadro3(t) ==
    IF "departamento" \notin t.columns THEN Raise("KeyError")
    ELSE LET d1 == Filtrar(t, "departamento", "Total")
             d2 == DropSiExiste(d1, "fuente_cuadro")
         IN  IF ~MeltPosible(d2, <<"departamento", "total">>, DIAS)
             THEN Raise("KeyError")
             ELSE Ok(DropCampo(Melt(d2, <<"departamento", "total">>, DIAS,
                                    "dia_semana", "accidentes"), "total"))

limpiar_cuadro7(t) ==
    IF "hora_de_ocurrencia" \notin t.columns THEN Raise("KeyError")
    ELSE LET d1 == Filtrar(t, "hora_de_ocurrencia", TxtTotal)
             d2 == Filtrar(d1, "hora_de_ocurrencia", TxtIgnorada)
             d3 == DropSiExiste(d2, "fuente_cuadro")
         IN  IF ~MeltPosible(d3, <<"hora_de_ocurrencia", "total">>, DIAS)
             THEN Raise("KeyError")
             ELSE LET l1 == DropCampo(Melt(d3, <<"hora_de_ocurrencia", "total">>, DIAS,
                                           "dia_semana", "accidentes"), "total")
                      l2 == ConCampo(l1, "hora_num",
                                [i \in DOMAIN l1 |->
                                    StrExtractHora(l1[i]["hora_de_ocurrencia"])])
                  IN  IF ~AstypeIntPosible(l2, "hora_num") THEN Raise("ValueError")
                      ELSE Ok(AstypeInt(l2, "hora_num"))

limpiar_cuadro9(t) ==
    IF "mes_de_ocurrencia" \notin t.columns THEN Raise("KeyError")
    ELSE LET d1 == Filtrar(t, "mes_de_ocurrencia", "Total")
             d2 == DropSiExiste(d1, "fuente_cuadro")
         IN  IF ~MeltPosible(d2, <<"mes_de_ocurrencia", "total">>, TIPOS_ACCIDENTE)
             THEN Raise("KeyError")
             ELSE LET l1 == DropCampo(Melt(d2, <<"mes_de_ocurrencia", "total">>,
                                           TIPOS_ACCIDENTE, "tipo_accidente",
                                           "cantidad"), "total")
                  IN  Ok(ConCampo(l1, "mes_num",
                                  [i \in DOMAIN l1 |->
                                      meses_dict(l1[i]["mes_de_ocurrencia"])]))

limpiar_cuadro18(t) ==
    IF "tipo_de_vehiculo" \notin t.columns THEN Raise("KeyError")
    ELSE LET d1 == Filtrar(t, "tipo_de_vehiculo", "Total")
             d2 == DropVarias(d1, <<"fuente_cuadro", "col_12">>)
         IN  IF ~MeltPosible(d2, <<"tipo_de_vehiculo", "total">>, TIPOS_ACCIDENTE)
             THEN Raise("KeyError")
             ELSE Ok(DropCampo(Melt(d2, <<"tipo_de_vehiculo", "total">>,
                                    TIPOS_ACCIDENTE, "tipo_accidente", "cantidad"),
                               "total"))

\* limpiar_cuadro38 and limpiar_cuadro54 have the same body: they return the
\* rows of the wide table.
LimpiarEdad(t) ==
    IF "grupos_de_edad" \notin t.columns THEN Raise("KeyError")
    ELSE Ok(DropSiExiste(Filtrar(t, "grupos_de_edad", "Total"), "fuente_cuadro").filas)

limpiar_cuadro38(t) == LimpiarEdad(t)

limpiar_cuadro54(t) == LimpiarEdad(t)

----------------------------------------------------------------------------
(* The raw tables the cleaning functions are run on *)

MaxFilas == 2

CUADROS == {"cuadro1", "cuadro3", "cuadro7", "cuadro9", "cuadro18", "cuadro31",
            "cuadro38", "cuadro47", "cuadro54"}

\* the identifier column each function filters on
IdCol(c) ==
    CASE c \in {"cuadro1", "cuadro3", "cuadro31", "cuadro47"} -> "departamento"
      [] c = "cuadro7" -> "hora_de_ocurrencia"
      [] c = "cuadro9" -> "mes_de_ocurrencia"
      [] c = "cuadro18" -> "tipo_de_vehiculo"
      [] c \in {"cuadro38", "cuadro54"} -> "grupos_de_edad"

\* the value columns: those the function unrolls, or the measure column of
\* the age tables
ValueVars(c) ==
    CASE c \in {"cuadro1", "cuadro31", "cuadro47"} -> ANIOS
      [] c \in {"cuadro3", "cuadro7"} -> DIAS
      [] c \in {"cuadro9", "cuadro18"} -> TIPOS_ACCIDENTE
      [] c \in {"cuadro38", "cuadro54"} -> <<"total">>

\* the name the function gives the measure
Medida(c) ==
    CASE c = "cuadro1" -> "accidentes" [] c = "cuadro31" -> "lesionados"
      [] c = "cuadro47" -> "fallecidos"
      [] c \in {"cuadro3", "cuadro7"} -> "accidentes"
      [] c \in {"cuadro9", "cuadro18"} -> "cantidad"
      [] c \in {"cuadro38", "cuadro54"} -> "total"

\* the columns that are only removed
ColsEliminar(c) ==
    CASE c = "cuadro47" -> {"fuente_cuadro", "Unnamed: 6", "col_10"}
      [] c = "cuadro18" -> {"fuente_cuadro", "col_12"}
      [] OTHER -> {"fuente_cuadro"}

TieneTotal(c) == c \in {"cuadro3", "cuadro7", "cuadro9", "cuadro18"}

TodasColumnas(c) ==
    {IdCol(c)} \cup Rango(ValueVars(c)) \cup ColsEliminar(c)
    \cup (IF TieneTotal(c) THEN {"total"} ELSE {})

\* identifier values from which the function derives no key: an hour label
\* without "digits:", a month name that meses_dict does not hold
IdsSinClave(c) ==
    CASE c = "cuadro7" -> {TxtNoche}
      [] c = "cuadro9" -> {"Ene"}
      [] OTHER -> {}

\* identifier values: data rows and the aggregate rows of the source
Ids(c) ==
    CASE c \in {"cuadro1", "cuadro3", "cuadro31", "cuadro47"} ->
            {"Guatemala", "Escuintla", "Total"}
      [] c = "cuadro7" -> {TxtHora00, TxtHora05, TxtHora23, TxtNoche,
                           TxtTotal, TxtIgnorada}
      [] c = "cuadro9" -> {"Enero", "Diciembre", "Ene", "Total"}
      [] c = "cuadro18" -> {"automovil", "motocicleta", "Total"}
      [] c \in {"cuadro38", "cuadro54"} -> {"0-14", "15-29", "Total"}

\* the identifier values the function's drop predicates remove
EsAgregadaId(c, id) ==
    IF c = "cuadro7" THEN id \in {TxtTotal, TxtIgnorada} ELSE id = "Total"

PrimeraVar(c) == ValueVars(c)[1]
UltimaVar(c) == ValueVars(c)[Len(ValueVars(c))]

\* A row holds 1 in every value cell but at most one, in the first or the
\* last value column, which holds another number, NaN or text. The tables
\* whose rows also vary in the form of the identifier vary the first value
\* column only.
CeldasRaras == {NaN, Texto, Num(2)}
Rarezas(c) ==
    {<<"", Num(1)>>}
    \cup ((IF IdsSinClave(c) = {} THEN {PrimeraVar(c), UltimaVar(c)} ELSE {PrimeraVar(c)})
          \X CeldasRaras)

Fila(c, id, rara) ==
    [col \in TodasColumnas(c) |->
        IF col = IdCol(c) THEN id
        ELSE IF col = rara[1] THEN rara[2]
        ELSE IF col \in Rango(ValueVars(c)) THEN Num(1)
        ELSE IF col = "total" THEN Num(7)
        ELSE "INE"]

FilasPosibles(c) == {Fila(c, id, rara) : id \in Ids(c), rara \in Rarezas(c)}

\* the source variants: every column, or all but one
ColumnasPosibles(c) ==
    {TodasColumnas(c)}
    \cup {TodasColumnas(c) \ {x} :
            x \in {IdCol(c), PrimeraVar(c), UltimaVar(c)} \cup ColsEliminar(c)
                  \cup (IF TieneTotal(c) THEN {"total"} ELSE {})}

Tabla(cols, filas) ==
    [columns |-> cols,
     filas |-> [i \in DOMAIN filas |-> [col \in cols |-> filas[i][col]]]]

TablasPosibles(c) ==
    {Tabla(cols, filas) :
        cols \in ColumnasPosibles(c),
        filas \in UNION {[1..n -> FilasPosibles(c)] : n \in 0..MaxFilas}}

InitNorm ==
    /\ cuadro \in CUADROS
    /\ df \in TablasPosibles(cuadro)
    /\ npc = "inicio"
    /\ salida = [estado |-> "pendiente", registros |-> <<>>]
    /\ salida2 = [estado |-> "pendiente", registros |-> <<>>]

\* A variant in which the function removes the aggregate rows from the
\* caller's table instead of from a copy.
TablaDelLlamador_filtrada(c, t) ==
    IF IdCol(c) \notin t.columns THEN t
    ELSE [columns |-> t.columns,
          filas |-> SelectSeq(t.filas, LAMBDA f : ~EsAgregadaId(c, f[IdCol(c)]))]

\* The caller's table after the call. The first statement of every cleaning
\* function rebinds its parameter to a filtered .copy(), and no later
\* statement works in place: the caller's table is the one it passed.
TablaDelLlamador(c, t) == t

\* main(), lines 259-284: one call per table
Llamada(c, resultado) ==
    /\ npc = "inicio"
    /\ cuadro = c
    /\ salida' = resultado
    /\ df' = TablaDelLlamador(c, df)
    /\ npc' = "fin"
    /\ UNCHANGED <<cuadro, salida2, dash, prep, llamada_vista>>

Limpiar1 == Llamada("cuadro1", limpiar_cuadro1(df))
Limpiar3 == Llamada("cuadro3", limpiar_cuadro3(df))
Limpiar7 == Llamada("cuadro7", limpiar_cuadro7(df))
Limpiar9 == Llamada("cuadro9", limpiar_cuadro9(df))
Limpiar18 == Llamada("cuadro18", limpiar_cuadro18(df))
Limpiar31 == Llamada("cuadro31", limpiar_cuadro31(df))
Limpiar38 == Llamada("cuadro38", limpiar_cuadro38(df))
Limpiar47 == Llamada("cuadro47", limpiar_cuadro47(df))
Limpiar54 == Llamada("cuadro54", limpiar_cuadro54(df))

\* the cleaning function main() calls on each raw table
Limpieza(c, t) ==
    CASE c = "cuadro1" -> limpiar_cuadro1(t)
      [] c = "cuadro3" -> limpiar_cuadro3(t)
      [] c = "cuadro7" -> limpiar_cuadro7(t)
      [] c = "cuadro9" -> limpiar_cuadro9(t)
      [] c = "cuadro18" -> limpiar_cuadro18(t)
      [] c = "cuadro31" -> limpiar_cuadro31(t)
      [] c = "cuadro38" -> limpiar_cuadro38(t)
      [] c = "cuadro47" -> limpiar_cuadro47(t)
      [] c = "cuadro54" -> limpiar_cuadro54(t)

\* the same function called again on the raw table the caller still holds
Repetir ==
    /\ npc = "fin"
    /\ salida2' = Limpieza(cuadro, df)
    /\ df' = TablaDelLlamador(cuadro, df)
    /\ npc' = "fin2"
    /\ UNCHANGED <<cuadro, salida, dash, prep, llamada_vista>>

NextNorm ==
    \/ Limpiar1 \/ Limpiar3 \/ Limpiar7 \/ Limpiar9 \/ Limpiar18
    \/ Limpiar31 \/ Limpiar38 \/ Limpiar47 \/ Limpiar54
    \/ Repetir

----------------------------------------------------------------------------
(* preprocesamiento_datos.py: main() *)

\* the order in which main() reads, cleans and writes the nine tables
ORDEN == <<"cuadro1", "cuadro3", "cuadro7", "cuadro9", "cuadro18", "cuadro31",
           "cuadro38", "cuadro47", "cuadro54">>

\* a file of ./data: absent, or holding a table
Ausente == [existe |-> FALSE, tabla |-> [columns |-> {}, filas |-> <<>>]]
Archivo(t) == [existe |-> TRUE, tabla |-> t]

\* a data row of each table
IdDato(c) ==
    CASE c \in {"cuadro1", "cuadro3", "cuadro31", "cuadro47"} -> "Guatemala"
      [] c = "cuadro7" -> TxtHora05
      [] c = "cuadro9" -> "Enero"
      [] c = "cuadro18" -> "automovil"
      [] c \in {"cuadro38", "cuadro54"} -> "0-14"

\* a raw table that cleans without error, and the same table without its
\* identifier column, on which the cleaning function raises KeyError
TablaBuena(c) == Tabla(TodasColumnas(c), <<Fila(c, IdDato(c), <<"", Num(1)>>)>>)
TablaSinId(c) ==
    Tabla(TodasColumnas(c) \ {IdCol(c)}, <<Fila(c, IdDato(c), <<"", Num(1)>>)>>)

\* what ./data can hold for a table
CASOS == {"ausente", "buena", "sin_id"}
ArchivoDe(c, caso) ==
    CASE caso = "ausente" -> Ausente
      [] caso = "buena" -> Archivo(TablaBuena(c))
      [] caso = "sin_id" -> Archivo(TablaSinId(c))

SinLimpiar == [estado |-> "pendiente", registros |-> <<>>]
SinEscribir == [escrito |-> FALSE, registros |-> <<>>]

InitMain ==
    /\ \E caso \in [CUADROS -> CASOS] :
          crudos = [c \in CUADROS |-> ArchivoDe(c, caso[c])]
    /\ mpc = [fase |-> "cargar", i |-> 0]
    /\ limpios = [c \in CUADROS |-> SinLimpiar]
    /\ data_clean = [c \in CUADROS |-> SinEscribir]

\* 241-254: the nine read_csv calls are in one try block; a missing file
\* prints the error and main() returns
CargarCrudos ==
    /\ mpc.fase = "cargar"
    /\ mpc' = IF \A c \in CUADROS : crudos[c].existe
              THEN [fase |-> "limpiar", i |-> 1]
              ELSE [fase |-> "error_carga", i |-> 0]
    /\ UNCHANGED <<crudos, limpios, data_clean, dash, norm, llamada_vista>>

\* 259-284: the cleaning calls, one after the other and outside any try; an
\* exception of a cleaning function ends main()
LimpiarEnMain ==
    /\ mpc.fase = "limpiar"
    /\ LET c == ORDEN[mpc.i]
           r == Limpieza(c, crudos[c].tabla)
       IN  IF r.estado = "ok"
           THEN /\ limpios' = [limpios EXCEPT ![c] = r]
                /\ mpc' = IF mpc.i < Len(ORDEN)
                          THEN [fase |-> "limpiar", i |-> mpc.i + 1]
                          ELSE [fase |-> "guardar", i |-> 1]
           ELSE /\ mpc' = [fase |-> "excepcion", i |-> mpc.i]
                /\ UNCHANGED limpios
    /\ UNCHANGED <<crudos, data_clean, dash, norm, llamada_vista>>

\* 288-296: the to_csv calls, after all nine tables have been cleaned
GuardarEnMain ==
    /\ mpc.fase = "guardar"
    /\ LET c == ORDEN[mpc.i]
       IN  data_clean' = [data_clean EXCEPT
                             ![c] = [escrito |-> TRUE,
                                     registros |-> limpios[c].registros]]
    /\ mpc' = IF mpc.i < Len(ORDEN)
              THEN [fase |-> "guardar", i |-> mpc.i + 1]
              ELSE [fase |-> "fin", i |-> 0]
    /\ UNCHANGED <<crudos, limpios, dash, norm, llamada_vista>>

NextMain == CargarCrudos \/ LimpiarEnMain \/ GuardarEnMain

----------------------------------------------------------------------------
(* dashboard.py: pandas, as the view functions use it. A cleaned table is   *)
(* the sequence of records its cleaning function returned.                 *)

\* Series.sum(): a missing value adds nothing
RECURSIVE SumaSerie(_, _)
SumaSerie(regs, medida) ==
    IF regs = <<>> THEN 0
    ELSE (IF Head(regs)[medida].t = "int" THEN Head(regs)[medida].v ELSE 0)
         + SumaSerie(Tail(regs), medida)

\* the values a record has in the group-by columns
Clave(r, claves) == [i \in DOMAIN claves |-> r[claves[i]]]

\* A variant of GroupBySum that keeps the measure of the first record of
\* each group (aggregator 'first').
GroupBySum_primero(regs, claves, medida) ==
    [k \in {Clave(regs[i], claves) : i \in DOMAIN regs} |->
        SumaSerie(<<Head(SelectSeq(regs, LAMBDA r : Clave(r, claves) = k))>>, medida)]

\* df.groupby(claves)[medida].sum(): one entry for each key that occurs
GroupBySum(regs, claves, medida) ==
    [k \in {Clave(regs[i], claves) : i \in DOMAIN regs} |->
        SumaSerie(SelectSeq(regs, LAMBDA r : Clave(r, claves) = k), medida)]

\* df.pivot_table(values, index, columns, aggfunc='sum'): the rows and the
\* columns are the values that occur; a cell without records is NaN
PivotSum(regs, index, columns, values) ==
    LET filas == {regs[i][index] : i \in DOMAIN regs}
        cols == {regs[i][columns] : i \in DOMAIN regs}
        grupo(f, c) == SelectSeq(regs, LAMBDA r : r[index] = f /\ r[columns] = c)
    IN  [index |-> filas,
         columns |-> cols,
         values |-> [f \in filas |-> [c \in cols |->
                       IF grupo(f, c) = <<>> THEN NaN
                       ELSE Num(SumaSerie(grupo(f, c), values))]]]

\* sort_values: the elements of S by ascending key
RECURSIVE OrdenarPor(_, _)
OrdenarPor(S, clave) ==
    IF S = {} THEN <<>>
    ELSE LET m == CHOOSE x \in S : \A y \in S : clave[x] <= clave[y]
         IN  <<m>> \o OrdenarPor(S \ {m}, clave)

\* df.sort_values(campo): the records by ascending value; records with equal
\* values keep their order (the tables here are short, and numpy sorts a
\* short array by insertion)
RECURSIVE SortValues(_, _)
SortValues(regs, campo) ==
    IF regs = <<>> THEN <<>>
    ELSE LET i == CHOOSE x \in DOMAIN regs : \A y \in DOMAIN regs :
                      \/ regs[x][campo] < regs[y][campo]
                      \/ regs[x][campo] = regs[y][campo] /\ x <= y
         IN  <<regs[i]>>
             \o SortValues([j \in 1..(Len(regs) - 1) |->
                               IF j < i THEN regs[j] ELSE regs[j + 1]], campo)

\* A variant of tail(n) that keeps the first n records (head(n)).
TailN_head(regs, n) ==
    IF Len(regs) <= n THEN regs ELSE SubSeq(regs, 1, n)

\* df.tail(n): the last n records
TailN(regs, n) ==
    IF Len(regs) <= n THEN regs ELSE SubSeq(regs, Len(regs) - n + 1, Len(regs))

\* (n / d * 100).round(1), in tenths of a percent: the nearest tenth, the
\* even one of two that are equally near; 0 / 0 is NaN
PorcentajeRedondeado(n, d) ==
    IF d = 0 THEN NaN
    ELSE LET q == (1000 * n) \div d
             r == (1000 * n) % d
         IN  Num(IF 2 * r < d THEN q
                 ELSE IF 2 * r > d THEN q + 1
                 ELSE IF q % 2 = 0 THEN q ELSE q + 1)

\* str.capitalize() of a weekday name
Capitalize(d) ==
    CASE d = "lunes" -> "Lunes" [] d = "martes" -> "Martes"
      [] d = "miercoles" -> "Miercoles" [] d = "jueves" -> "Jueves"
      [] d = "viernes" -> "Viernes" [] d = "sabado" -> "Sabado"
      [] d = "domingo" -> "Domingo"

----------------------------------------------------------------------------
(* dashboard.py: the view functions *)

\* asignar_color of crear_vis1_departamentos: the index in ESCALA_AZUL for
\* norm = (valor - min_val) / (max_val - min_val), or for 0.5 when all the
\* values are equal
asignar_color(valor, min_val, max_val) ==
    IF max_val = min_val THEN 2
    ELSE LET n == 5 * (valor - min_val)
             d == max_val - min_val
         IN  IF n < d THEN 0 ELSE IF n < 2 * d THEN 1 ELSE IF n < 3 * d THEN 2
             ELSE IF n < 4 * d THEN 3 ELSE 4

\* crear_vis1_departamentos: the year's records by ascending count, each with
\* its colour; the selected department is drawn in rojo_critico. With a
\* selection and no record of the year, DataFrame.apply(axis=1) returns an
\* empty DataFrame and the assignment to the one column raises ValueError.
crear_vis1_departamentos(df_acc, anio_seleccionado, seleccionado) ==
    LET del_anio == SelectSeq(df_acc, LAMBDA r : r["anio"] = anio_seleccionado)
        valores == [i \in DOMAIN del_anio |->
                       [departamento |-> del_anio[i]["departamento"],
                        anio |-> del_anio[i]["anio"],
                        accidentes |-> del_anio[i]["accidentes"].v]]
        df_filtrado == SortValues(valores, "accidentes")
        cantidades == {df_filtrado[i]["accidentes"] : i \in DOMAIN df_filtrado}
        max_val == CHOOSE x \in cantidades : \A y \in cantidades : y <= x
        min_val == CHOOSE x \in cantidades : \A y \in cantidades : x <= y
        color(r) == IF seleccionado # None /\ r["departamento"] = seleccionado
                    THEN "rojo_critico"
                    ELSE asignar_color(r["accidentes"], min_val, max_val)
    IN  IF seleccionado # None /\ df_filtrado = <<>>
        THEN [estado |-> "ValueError"]
        ELSE [estado |-> "ok",
              y |-> [i \in DOMAIN df_filtrado |-> df_filtrado[i]["departamento"]],
              x |-> [i \in DOMAIN df_filtrado |-> df_filtrado[i]["accidentes"]],
              color |-> [i \in DOMAIN df_filtrado |-> color(df_filtrado[i])]]

\* A variant of crear_vis2_serie_temporal that appends the selected
\* department without looking for it in the list.
crear_vis2_serie_temporal_siempre(df_acc, deptos_sel, depto_desde_vis1) ==
    LET deptos_a_mostrar ==
            IF depto_desde_vis1 # None
            THEN Append(deptos_sel, depto_desde_vis1)
            ELSE deptos_sel
        df_filtrado ==
            SelectSeq(df_acc, LAMBDA r : r["departamento"] \in Rango(deptos_a_mostrar))
        df_agrupado == GroupBySum(df_filtrado, <<"anio", "departamento">>, "accidentes")
        traza(depto) ==
            [name |-> depto,
             resaltado |-> (depto = depto_desde_vis1),
             puntos |-> {<<k[1], df_agrupado[k]>> :
                            k \in {q \in DOMAIN df_agrupado : q[2] = depto}}]
    IN  [estado |-> "ok",
         df_filtrado |-> df_filtrado,
         df_agrupado |-> df_agrupado,
         trazas |-> [i \in DOMAIN deptos_a_mostrar |-> traza(deptos_a_mostrar[i])]]

\* crear_vis2_serie_temporal: one trace per department of the list, the
\* points of a trace being the yearly sums of that department
crear_vis2_serie_temporal(df_acc, deptos_sel, depto_desde_vis1) ==
    LET deptos_a_mostrar ==
            IF depto_desde_vis1 # None /\ depto_desde_vis1 \notin Rango(deptos_sel)
            THEN Append(deptos_sel, depto_desde_vis1)
            ELSE deptos_sel
        df_filtrado ==
            SelectSeq(df_acc, LAMBDA r : r["departamento"] \in Rango(deptos_a_mostrar))
        df_agrupado == GroupBySum(df_filtrado, <<"anio", "departamento">>, "accidentes")
        traza(depto) ==
            [name |-> depto,
             resaltado |-> (depto = depto_desde_vis1),
             puntos |-> {<<k[1], df_agrupado[k]>> :
                            k \in {q \in DOMAIN df_agrupado : q[2] = depto}}]
    IN  [estado |-> "ok",
         df_filtrado |-> df_filtrado,
         df_agrupado |-> df_agrupado,
         trazas |-> [i \in DOMAIN deptos_a_mostrar |-> traza(deptos_a_mostrar[i])]]

\* the accident types in the order groupby gives its keys (sorted)
TIPOS_ORDENADOS == <<"atropello", "caida", "choque", "colision", "derrape",
                     "embarranco", "encuneto", "ignorado", "incendio", "otros",
                     "vuelco">>

RANGOS == {"Anio completo", "Q1", "Q2", "Q3", "Q4"}

\* A variant of the quarter filters in which Q4 leaves out December.
MesesDeRango_sin_diciembre(rango_temporal) ==
    CASE rango_temporal = "Q1" -> {1, 2, 3}
      [] rango_temporal = "Q2" -> {4, 5, 6}
      [] rango_temporal = "Q3" -> {7, 8, 9}
      [] rango_temporal = "Q4" -> {10, 11}

\* the months of a quarter filter: isin([...]) of lines 189-196
MesesDeRango(rango_temporal) ==
    CASE rango_temporal = "Q1" -> {1, 2, 3}
      [] rango_temporal = "Q2" -> {4, 5, 6}
      [] rango_temporal = "Q3" -> {7, 8, 9}
      [] rango_temporal = "Q4" -> {10, 11, 12}

\* crear_vis3_top_tipos: the sum per accident type of the records of the
\* quarter, the ten greatest by ascending sum, each with its percentage of
\* the total of those ten; the selected type is drawn in verde_positivo.
crear_vis3_top_tipos(df_tipos, rango_temporal, seleccionado) ==
    LET df_rango ==
            IF rango_temporal \in {"Q1", "Q2", "Q3", "Q4"}
            THEN SelectSeq(df_tipos, LAMBDA r :
                     /\ r["mes_num"].t = "int"
                     /\ r["mes_num"].v \in MesesDeRango(rango_temporal))
            ELSE df_tipos
        g == GroupBySum(df_rango, <<"tipo_accidente">>, "cantidad")
        claves == SelectSeq(TIPOS_ORDENADOS, LAMBDA t : <<t>> \in DOMAIN g)
        sumas == [i \in DOMAIN claves |->
                     [tipo_accidente |-> claves[i], cantidad |-> g[<<claves[i]>>]]]
        top == TailN(SortValues(sumas, "cantidad"), 10)
        total == SumaSerie([i \in DOMAIN top |-> [cantidad |-> Num(top[i]["cantidad"])]],
                           "cantidad")
    IN  [estado |-> "ok",
         df_agrupado |->
            [i \in DOMAIN top |->
                [tipo_accidente |-> top[i]["tipo_accidente"],
                 cantidad |-> top[i]["cantidad"],
                 porcentaje |-> PorcentajeRedondeado(top[i]["cantidad"], total),
                 resaltado |-> (seleccionado # None
                                /\ top[i]["tipo_accidente"] = seleccionado)]]]

\* A variant of meses_nombres in which June and July have changed places.
meses_nombres_cruzados(n) ==
    CASE n = 1 -> "Enero" [] n = 2 -> "Febrero" [] n = 3 -> "Marzo"
      [] n = 4 -> "Abril" [] n = 5 -> "Mayo" [] n = 6 -> "Julio"
      [] n = 7 -> "Junio" [] n = 8 -> "Agosto" [] n = 9 -> "Septiembre"
      [] n = 10 -> "Octubre" [] n = 11 -> "Noviembre" [] n = 12 -> "Diciembre"
      [] OTHER -> NaN

\* meses_nombres of crear_vis3_1_evolucion_tipo; Series.map gives NaN for any
\* other number
meses_nombres(n) ==
    CASE n = 1 -> "Enero" [] n = 2 -> "Febrero" [] n = 3 -> "Marzo"
      [] n = 4 -> "Abril" [] n = 5 -> "Mayo" [] n = 6 -> "Junio"
      [] n = 7 -> "Julio" [] n = 8 -> "Agosto" [] n = 9 -> "Septiembre"
      [] n = 10 -> "Octubre" [] n = 11 -> "Noviembre" [] n = 12 -> "Diciembre"
      [] OTHER -> NaN

\* crear_vis3_1_evolucion_tipo: with a type, the sums of its records per
\* month number (groupby leaves out the records without one), by ascending
\* month number, each under the month's name; without a type, a message
crear_vis3_1_evolucion_tipo(df_tipos, tipo_seleccionado) ==
    IF tipo_seleccionado = None
    THEN [estado |-> "ok", mensaje |-> TRUE, x |-> <<>>, y |-> <<>>]
    ELSE LET df_filtrado ==
                 SelectSeq(df_tipos, LAMBDA r :
                     r["tipo_accidente"] = tipo_seleccionado /\ r["mes_num"] # NaN)
             con_mes == [i \in DOMAIN df_filtrado |->
                            [mes_num |-> df_filtrado[i]["mes_num"].v,
                             cantidad |-> df_filtrado[i]["cantidad"]]]
             df_mensual == GroupBySum(con_mes, <<"mes_num">>, "cantidad")
             numero == [k \in DOMAIN df_mensual |-> k[1]]
             orden == OrdenarPor(DOMAIN df_mensual, numero)
         IN  [estado |-> "ok", mensaje |-> FALSE,
              x |-> [i \in DOMAIN orden |-> meses_nombres(orden[i][1])],
              y |-> [i \in DOMAIN orden |-> df_mensual[orden[i]]]]

\* main(), lines 737-745: the options of selector_tipo are 'Ninguno' and the
\* types of the frame the first call returns
OpcionesSelectorTipo(df_tipos, rango) ==
    LET df_tipos_top == crear_vis3_top_tipos(df_tipos, rango, None).df_agrupado
    IN  <<Ninguno>> \o [i \in DOMAIN df_tipos_top |-> df_tipos_top[i]["tipo_accidente"]]

\* main(), lines 730-753: the selector and the chart of the top types
TopTiposEnMain(df_tipos, rango, seleccionado) ==
    [estado |-> "ok",
     opciones |-> OpcionesSelectorTipo(df_tipos, rango),
     df_agrupado |-> crear_vis3_top_tipos(df_tipos, rango, seleccionado).df_agrupado]

\* crear_vis4_heatmap: the pivot of hour by weekday, its columns in the order
\* of dias_ordenados and its rows by hora_num. Selecting a list of columns
\* raises KeyError when one of them is missing.
crear_vis4_heatmap(df_dh) ==
    LET df_pivot == PivotSum(df_dh, "hora_de_ocurrencia", "dia_semana", "accidentes")
        dias_ordenados == DIAS
        hora_num == [h \in df_pivot.index |->
                        (CHOOSE r \in Rango(df_dh) : r["hora_de_ocurrencia"] = h)
                            ["hora_num"].v]
        orden_horas == OrdenarPor(df_pivot.index, hora_num)
    IN  IF ~(Rango(dias_ordenados) \subseteq df_pivot.columns)
        THEN [estado |-> "KeyError"]
        ELSE [estado |-> "ok",
              columns |-> dias_ordenados,
              x |-> [i \in DOMAIN dias_ordenados |-> Capitalize(dias_ordenados[i])],
              y |-> orden_horas,
              z |-> [i \in DOMAIN orden_horas |->
                       [j \in DOMAIN dias_ordenados |->
                           df_pivot.values[orden_horas[i]][dias_ordenados[j]]]]]

\* crear_vis5_vehiculos: the sum per vehicle type, by descending sum; the
\* selected type, when there is one, is the only coloured slice. The
\* 'porcentaje' column it adds is read nowhere.
crear_vis5_vehiculos(df_veh, seleccionado) ==
    LET df_agrupado == GroupBySum(df_veh, <<"tipo_de_vehiculo">>, "cantidad")
        negativo == [k \in DOMAIN df_agrupado |-> 0 - df_agrupado[k]]
        orden == OrdenarPor(DOMAIN df_agrupado, negativo)
    IN  [estado |-> "ok",
         df_agrupado |-> df_agrupado,
         labels |-> [i \in DOMAIN orden |-> orden[i][1]],
         values |-> [i \in DOMAIN orden |-> df_agrupado[orden[i]]],
         total |-> SumaSerie([i \in DOMAIN orden |->
                                 [cantidad |-> Num(df_agrupado[orden[i]])]], "cantidad"),
         resaltado |-> IF seleccionado # None THEN seleccionado ELSE None]

\* crear_vis6_fallecidos_lesionados: with a department, the records of that
\* department as they are; without one, the yearly sums
crear_vis6_fallecidos_lesionados(df_fallecidos, df_lesionados, departamento) ==
    LET delDepto(t) == SelectSeq(t, LAMBDA r : r["departamento"] = departamento)
        puntosDe(t, medida) == [i \in DOMAIN t |-> <<t[i]["anio"], t[i][medida].v>>]
        porAnio(t, medida) ==
            LET g == GroupBySum(t, <<"anio">>, medida)
                anio == [k \in DOMAIN g |-> k[1]]
                orden == OrdenarPor(DOMAIN g, anio)
            IN  [i \in DOMAIN orden |-> <<orden[i][1], g[orden[i]]>>]
    IN  IF departamento # None
        THEN [estado |-> "ok", agrupado |-> FALSE,
              fallecidos |-> puntosDe(delDepto(df_fallecidos), "fallecidos"),
              lesionados |-> puntosDe(delDepto(df_lesionados), "lesionados")]
        ELSE [estado |-> "ok", agrupado |-> TRUE,
              fallecidos |-> porAnio(df_fallecidos, "fallecidos"),
              lesionados |-> porAnio(df_lesionados, "lesionados")]

----------------------------------------------------------------------------
(* modelos_tab.py. The metrics artifact gives, for each model, its          *)
(* algorithms in the order of the file, each with a dictionary of metrics;  *)
(* a metric is a whole number of hundredths. Titles and algorithm names    *)
(* are sequences of characters.                                            *)

\* str.lower() of the characters that occur in the titles
Minuscula(c) ==
    CASE c = "M" -> "m" [] c = "C" -> "c" [] c = "R" -> "r" [] c = "F" -> "f"
      [] c = "X" -> "x" [] c = "G" -> "g" [] c = "B" -> "b"
      [] OTHER -> c

Lower(s) == [i \in DOMAIN s |-> Minuscula(s[i])]

\* w in s
Contiene(s, w) ==
    \E i \in 1..(Len(s) - Len(w) + 1) : SubSeq(s, i, i + Len(w) - 1) = w

TxtGravedad == <<"g", "r", "a", "v", "e", "d", "a", "d">>
TxtTipo == <<"t", "i", "p", "o">>
TxtModelo1 == <<"M", "o", "d", "e", "l", "o", " ", "1">>
TxtModelo3 == <<"M", "o", "d", "e", "l", "o", " ", "3">>
\* 'Matriz de Confusion - ', the head of the title of line 368
TxtMatrizDe == <<"M", "a", "t", "r", "i", "z", " ", "d", "e", " ", "C", "o", "n",
                 "f", "u", "s", "i", "o", "n", " ", "-", " ">>
TxtRandomForest == <<"R", "a", "n", "d", "o", "m", " ", "F", "o", "r", "e", "s", "t">>
TxtXGBoost == <<"X", "G", "B", "o", "o", "s", "t">>

\* crear_matriz_confusion: the axis labels are chosen by the title, and the
\* heatmap gets them with the matrix as it is
crear_matriz_confusion(matriz, titulo, modelo_nombre) ==
    LET labels ==
            IF Contiene(Lower(titulo), TxtGravedad) \/ Contiene(titulo, TxtModelo1)
            THEN <<"Baja Gravedad", "Alta Gravedad">>
            ELSE IF Contiene(Lower(titulo), TxtTipo) \/ Contiene(titulo, TxtModelo3)
            THEN <<"Riesgo Bajo", "Riesgo Medio", "Riesgo Alto">>
            ELSE <<"Clase 0", "Clase 1">>
    IN  [estado |-> "ok", z |-> matriz, x |-> labels, y |-> labels]

\* mostrar_desempeno_modelo, lines 338-371: a classifier gets its confusion
\* matrix drawn when the algorithm's metrics hold one; the title is
\* 'Matriz de Confusion - ' and the algorithm's name
mostrar_desempeno_modelo(modelo_key, modelo_info, algoritmo_seleccionado) ==
    LET metricas ==
            (CHOOSE a \in Rango(modelo_info.metricas) :
                 a.nombre = algoritmo_seleccionado).met
    IN  IF modelo_key = "modelo2_cantidad" \/ "confusion_matrix" \notin DOMAIN metricas
        THEN [estado |-> "ok", sin_matriz |-> TRUE]
        ELSE crear_matriz_confusion(metricas["confusion_matrix"],
                                    TxtMatrizDe \o algoritmo_seleccionado,
                                    modelo_key)

\* x[1].get(clave, 0)
GetOCero(met, clave) == IF clave \in DOMAIN met THEN met[clave] ELSE 0

\* max(items, key=lambda x: x[1].get('f1_score', 0)): the first item whose
\* key no other exceeds
MaxPorF1(items) ==
    items[CHOOSE i \in DOMAIN items : \A j \in DOMAIN items :
              \/ GetOCero(items[j].met, "f1_score") < GetOCero(items[i].met, "f1_score")
              \/ /\ GetOCero(items[j].met, "f1_score") = GetOCero(items[i].met, "f1_score")
                 /\ i <= j]

\* whether key a of min(..., key=lambda x: x[1].get('rmse', float('inf')))
\* is below key b
RmseMenor(a, b) ==
    /\ "rmse" \in DOMAIN a
    /\ ("rmse" \notin DOMAIN b \/ a["rmse"] < b["rmse"])

\* min(items, key): the first item that no other is below
MinPorRmse(items) ==
    items[CHOOSE i \in DOMAIN items :
              /\ \A j \in DOMAIN items : ~RmseMenor(items[j].met, items[i].met)
              /\ \A j \in 1..(i - 1) : RmseMenor(items[i].met, items[j].met)]

\* crear_tabla_comparativa: one row per selected model, with its best
\* algorithm; formatting the best algorithm's metric raises KeyError when
\* its metrics do not hold it
FilaComparativa(modelos_data, modelo_key) ==
    LET items == modelos_data[modelo_key].metricas
    IN  IF modelo_key = "modelo2_cantidad"
        THEN LET mejor_algo == MinPorRmse(items)
             IN  IF "rmse" \notin DOMAIN mejor_algo.met THEN [estado |-> "KeyError"]
                 ELSE [estado |-> "ok", Modelo |-> "Modelo 2: Cantidad",
                       Tipo |-> "Regresion", Algoritmo |-> mejor_algo.nombre,
                       Principal |-> mejor_algo.met["rmse"]]
        ELSE LET mejor_algo == MaxPorF1(items)
             IN  IF "f1_score" \notin DOMAIN mejor_algo.met THEN [estado |-> "KeyError"]
                 ELSE [estado |-> "ok",
                       Modelo |-> IF modelo_key = "modelo1_gravedad"
                                  THEN "Modelo 1: Gravedad"
                                  ELSE "Modelo 3: Nivel de Riesgo",
                       Tipo |-> "Clasificacion", Algoritmo |-> mejor_algo.nombre,
                       Principal |-> mejor_algo.met["f1_score"]]

crear_tabla_comparativa(modelos_data, modelos_seleccionados) ==
    LET filas == [i \in DOMAIN modelos_seleccionados |->
                     FilaComparativa(modelos_data, modelos_seleccionados[i])]
    IN  IF \E i \in DOMAIN filas : filas[i].estado = "KeyError"
        THEN [estado |-> "KeyError", filas |-> <<>>]
        ELSE [estado |-> "ok", filas |-> filas]

\* render_modelos_tab, lines 434-460: the checked models, in the order of
\* the three checkboxes; fewer than two give a warning and no table
MODELOS == <<"modelo1_gravedad", "modelo2_cantidad", "modelo3_tipo">>

ComparacionEnRender(modelos_data, checks) ==
    LET modelos_a_comparar == SelectSeq(MODELOS, LAMBDA m : checks[m])
    IN  IF Len(modelos_a_comparar) < 2
        THEN [estado |-> "aviso", filas |-> <<>>]
        ELSE crear_tabla_comparativa(modelos_data, modelos_a_comparar)

----------------------------------------------------------------------------
(* The cleaned tables the view functions are called with *)

VISTAS == {"vis1", "vis2", "vis3", "vis3_1", "vis4", "vis5", "vis6",
           "matriz", "comparacion"}

\* rows of a raw table that clean without error: a data row (of the hour
\* table, one with an hour in its label), with 1 in every value cell but at
\* most the first, which is missing or 2
FilasLimpiables(c) ==
    {Fila(c, id, rara) :
        id \in {i \in Ids(c) \ (IF c = "cuadro7" THEN IdsSinClave(c) ELSE {}) :
                    ~EsAgregadaId(c, i)},
        rara \in {<<"", Num(1)>>, <<PrimeraVar(c), NaN>>, <<PrimeraVar(c), Num(2)>>}}

\* what cargar_datos reads: the records the cleaning function wrote
TablasLimpias(c) ==
    {Limpieza(c, Tabla(TodasColumnas(c), filas)).registros :
        filas \in UNION {[1..n -> FilasLimpiables(c)] : n \in 0..MaxFilas}}

\* a cleaned file of accident types that holds two types more than the nine
\* limpiar_cuadro9 writes: one record per type, in January, counting 2, or 1
\* for some of every other type
TablasMuchosTipos ==
    {[i \in DOMAIN TIPOS_ORDENADOS |->
         [mes_de_ocurrencia |-> "Enero",
          tipo_accidente |-> TIPOS_ORDENADOS[i],
          cantidad |-> Num(IF i \in menores THEN 1 ELSE 2),
          mes_num |-> Num(1)]] :
        menores \in SUBSET {i \in DOMAIN TIPOS_ORDENADOS : i % 2 = 1}}

\* The metrics artifact. The confusion matrix of a classifier has a row and
\* a column for each class: two for model 1, three for model 3.
MatrizDe(modelo_key) ==
    IF modelo_key = "modelo1_gravedad" THEN <<<<5, 1>>, <<2, 4>>>>
    ELSE <<<<3, 1, 0>>, <<1, 4, 1>>, <<0, 2, 3>>>>

\* the metrics of an algorithm: the main metric of the model (f1_score or
\* rmse) with value v, or without it when v is "falta", and the confusion
\* matrix of a classifier when con_matriz
Metricas(modelo_key, v, con_matriz) ==
    LET principal == IF modelo_key = "modelo2_cantidad" THEN "rmse" ELSE "f1_score"
        otra == IF modelo_key = "modelo2_cantidad" THEN "r2" ELSE "accuracy"
        claves == {otra} \cup (IF v.falta THEN {} ELSE {principal})
                  \cup (IF con_matriz /\ modelo_key # "modelo2_cantidad"
                        THEN {"confusion_matrix"} ELSE {})
    IN  [k \in claves |->
            IF k = "confusion_matrix" THEN MatrizDe(modelo_key)
            ELSE IF k = principal THEN v.valor ELSE 50]

ValoresDeMetrica ==
    {[falta |-> TRUE, valor |-> 0], [falta |-> FALSE, valor |-> 0],
     [falta |-> FALSE, valor |-> 80]}

\* a model of the artifact with two algorithms
ModeloInfo(modelo_key, v1, v2, con_matriz) ==
    [descripcion |-> modelo_key,
     metricas |-> <<[nombre |-> TxtRandomForest,
                     met |-> Metricas(modelo_key, v1, con_matriz)],
                    [nombre |-> TxtXGBoost,
                     met |-> Metricas(modelo_key, v2, TRUE)]>>]

ArtefactosPosibles ==
    {[m \in Rango(MODELOS) |-> ModeloInfo(m, v[m][1], v[m][2], con_matriz)] :
        v \in [Rango(MODELOS) -> ValoresDeMetrica \X ValoresDeMetrica],
        con_matriz \in BOOLEAN}

\* artifacts in which every algorithm has its main metric
ArtefactosCompletos ==
    {[m \in Rango(MODELOS) |->
         ModeloInfo(m, [falta |-> FALSE, valor |-> 80],
                       [falta |-> FALSE, valor |-> 80], con_matriz)] :
        con_matriz \in BOOLEAN}

\* a cleaned file in which weekday d has no record
SinDia(regs, d) == SelectSeq(regs, LAMBDA r : r["dia_semana"] # d)

TablasDeVista(v) ==
    CASE v \in {"vis1", "vis2"} -> {[df_accidentes |-> t] : t \in TablasLimpias("cuadro1")}
      [] v = "vis3" -> {[df_tipos |-> t] :
                            t \in TablasLimpias("cuadro9") \cup TablasMuchosTipos}
      [] v = "vis3_1" -> {[df_tipos |-> t] : t \in TablasLimpias("cuadro9")}
      [] v = "matriz" -> {[modelos_data |-> d] : d \in ArtefactosCompletos}
      [] v = "comparacion" -> {[modelos_data |-> d] : d \in ArtefactosPosibles}
      [] v = "vis4" -> {[df_dia_hora |-> SinDia(t, d)] :
                            t \in TablasLimpias("cuadro7"),
                            d \in {"ninguno", "lunes", "domingo"}}
      [] v = "vis5" -> {[df_vehiculos |-> t] : t \in TablasLimpias("cuadro18")}
      [] v = "vis6" -> {[df_fallecidos |-> t, df_lesionados |-> u] :
                            t \in TablasLimpias("cuadro47"),
                            u \in TablasLimpias("cuadro31")}

ArgsDeVista(v) ==
    CASE v = "vis1" -> {[anio_seleccionado |-> a, departamento_seleccionado |-> d] :
                            a \in {2020, 2024}, d \in DEPTOS \cup {None}}
      [] v = "vis2" -> {[deptos_seleccionados |-> l, depto_desde_vis1 |-> d] :
                            l \in ListasDeptos, d \in DEPTOS \cup {None}}
      [] v = "vis3" -> {[rango |-> r, tipo_accidente_seleccionado |-> x] :
                            r \in RANGOS, x \in {None, "colision"}}
      [] v = "vis3_1" -> {[tipo_seleccionado |-> x] : x \in {None, "colision", "ignorado"}}
      [] v = "matriz" -> {[modelo_key |-> m, algoritmo_seleccionado |-> a] :
                            m \in Rango(MODELOS), a \in {TxtRandomForest, TxtXGBoost}}
      [] v = "comparacion" -> {[checks |-> c] : c \in [Rango(MODELOS) -> BOOLEAN]}
      [] v = "vis4" -> {[sin_argumentos |-> TRUE]}
      [] v = "vis5" -> {[tipo_vehiculo_seleccionado |-> x] : x \in VEHICULOS \cup {None}}
      [] v = "vis6" -> {[departamento |-> d] : d \in DEPTOS \cup {None}}

InitVis ==
    /\ vista \in VISTAS
    /\ tabla \in TablasDeVista(vista)
    /\ arg \in ArgsDeVista(vista)
    /\ vpc = "inicio"
    /\ fig = [estado |-> "pendiente"]

\* A variant in which a view adds its 'color' column to the tables it is
\* given instead of to a copy.
TablasTrasVista_color(v, t) ==
    [n \in DOMAIN t |->
        [i \in DOMAIN t[n] |->
            [c \in (DOMAIN t[n][i]) \cup {"color"} |->
                IF c = "color" THEN "azul" ELSE t[n][i][c]]]]

\* The loaded tables after a view function returns. Every view function
\* works on a filtered or grouped frame or on a .copy() (lines 74, 136, 199,
\* 260, 332, 377, 417-421); the columns it adds (color, porcentaje,
\* mes_nombre) go to those, never to the frame it was given.
TablasTrasVista(v, t) == t

LlamadaVista(v, resultado) ==
    /\ vpc = "inicio"
    /\ vista = v
    /\ fig' = resultado
    /\ tabla' = TablasTrasVista(v, tabla)
    /\ vpc' = "fin"
    /\ UNCHANGED <<vista, arg, dash, norm, prep>>

\* the next script run calls the view again, with other selections
OtraCorrida ==
    /\ vpc = "fin"
    /\ arg' \in ArgsDeVista(vista)
    /\ fig' = [estado |-> "pendiente"]
    /\ vpc' = "inicio"
    /\ UNCHANGED <<vista, tabla, dash, norm, prep>>

LlamarVis1 ==
    LlamadaVista("vis1", crear_vis1_departamentos(tabla.df_accidentes,
                                                  arg.anio_seleccionado,
                                                  arg.departamento_seleccionado))

LlamarVis2 ==
    LlamadaVista("vis2", crear_vis2_serie_temporal(tabla.df_accidentes,
                                                   arg.deptos_seleccionados,
                                                   arg.depto_desde_vis1))

LlamarVis3 ==
    LlamadaVista("vis3", TopTiposEnMain(tabla.df_tipos, arg.rango,
                                        arg.tipo_accidente_seleccionado))

LlamarVis3_1 ==
    LlamadaVista("vis3_1", crear_vis3_1_evolucion_tipo(tabla.df_tipos,
                                                       arg.tipo_seleccionado))

LlamarVis4 == LlamadaVista("vis4", crear_vis4_heatmap(tabla.df_dia_hora))

LlamarVis5 ==
    LlamadaVista("vis5", crear_vis5_vehiculos(tabla.df_vehiculos,
                                              arg.tipo_vehiculo_seleccionado))

LlamarVis6 ==
    LlamadaVista("vis6", crear_vis6_fallecidos_lesionados(tabla.df_fallecidos,
                                                          tabla.df_lesionados,
                                                          arg.departamento))

LlamarDesempeno ==
    LlamadaVista("matriz", mostrar_desempeno_modelo(arg.modelo_key,
                                                    tabla.modelos_data[arg.modelo_key],
                                                    arg.algoritmo_seleccionado))

LlamarComparacion ==
    LlamadaVista("comparacion", ComparacionEnRender(tabla.modelos_data, arg.checks))

NextVis ==
    \/ LlamarVis1 \/ LlamarVis2 \/ LlamarVis3 \/ LlamarVis3_1 \/ LlamarVis4 \/ LlamarVis5 \/ LlamarVis6
    \/ LlamarDesempeno \/ LlamarComparacion
    \/ OtraCorrida

Init == InitDash /\ NormQuieto /\ PrepQuieto /\ VistaQuieta

Next == NextDash

Spec == Init /\ [][Next]_vars

InitPre == DashQuieto /\ InitNorm /\ PrepQuieto /\ VistaQuieta

SpecNorm == InitPre /\ [][NextNorm]_vars

InitPrep == DashQuieto /\ NormQuieto /\ InitMain /\ VistaQuieta

SpecMain == InitPrep /\ [][NextMain]_vars

InitVistas == DashQuieto /\ NormQuieto /\ PrepQuieto /\ InitVis

SpecVis == InitVistas /\ [][NextVis]_vars

----------------------------------------------------------------------------
(* Claims about the selection state (Spec) *)

\* what a slot must hold once its selector, showing sel, has been handled
Elegido(sel) == IF sel = Ninguno THEN None ELSE sel

TrasSelectorDepto == {"vis2", "selector_tipo", "vis3", "evolucion", "selector_veh",
                      "vis5", "tab4", "fin"}
TrasSelectorTipo == {"vis3", "evolucion", "selector_veh", "vis5", "tab4", "fin"}
TrasSelectorVeh == {"vis5", "tab4", "fin"}

\* C1: in a run that shows a slot's selector, once the selector has been
\* handled the slot holds the value chosen in it (empty for 'Ninguno'), and
\* every later read of the slot in that run returns that value, whatever the
\* slot held before.
C1_SetLuegoGet ==
    /\ (pc \in TrasSelectorDepto /\ VeDistribucion) =>
          /\ departamento_seleccionado = Elegido(selector_depto)
          /\ vis2_depto \in {SinDibujar, Elegido(selector_depto)}
    /\ (pc \in TrasSelectorTipo /\ VeTopTipos) =>
          /\ tipo_accidente_seleccionado = Elegido(selector_tipo)
          /\ vis3_resaltado \in {SinDibujar, Elegido(selector_tipo)}
          /\ vis3_1_tipo \in {SinDibujar, Elegido(selector_tipo)}
    /\ (pc \in TrasSelectorVeh /\ VeVehiculos) =>
          /\ tipo_vehiculo_seleccionado = Elegido(selector_veh)
          /\ vis5_resaltado \in {SinDibujar, Elegido(selector_veh)}

\* C1 witness: the slot held Guatemala (the bar chart was drawn with it), the
\* user chose Escuintla, and the time series read Escuintla.
C1_Witness ==
    /\ pc = "selector_tipo"
    /\ vis1_resaltado = "Guatemala"
    /\ selector_depto = "Escuintla"
    /\ departamento_seleccionado = "Escuintla"
    /\ vis2_depto = "Escuintla"

\* C2: when the run that st.rerun() starts after 'Resetear Filtros' has
\* completed, the three slots are empty.
C2_ResetVacia ==
    (pc = "idle" /\ origen = "rerun") =>
        /\ departamento_seleccionado = None
        /\ tipo_accidente_seleccionado = None
        /\ tipo_vehiculo_seleccionado = None

\* C3: at the end of every script run, each view that was drawn shows the
\* value its slot holds after the run's mutation.
C3_VistasAlDia ==
    pc = "idle" =>
        /\ info_sidebar \in {SinInfo, slots}
        /\ vis1_resaltado \in {SinDibujar, departamento_seleccionado}
        /\ vis2_depto \in {SinDibujar, departamento_seleccionado}
        /\ vis3_resaltado \in {SinDibujar, tipo_accidente_seleccionado}
        /\ vis3_1_tipo \in {SinDibujar, tipo_accidente_seleccionado}
        /\ vis5_resaltado \in {SinDibujar, tipo_vehiculo_seleccionado}

\* C4: each slot holds nothing or one value of its dimension, and no step
\* changes more than one slot: a set or a clear of one slot leaves the other
\* two as they were.
C4_UnSlotPorPaso ==
    /\ [](/\ departamento_seleccionado \in DEPTOS \cup {None}
          /\ tipo_accidente_seleccionado \in TIPOS \cup {None}
          /\ tipo_vehiculo_seleccionado \in VEHICULOS \cup {None})
    /\ [][Cardinality({i \in 1..3 : slots[i] # slots'[i]}) <= 1]_vars

\* C4 witness: the vehicle selector has just set its slot while the other two
\* slots hold values.
C4_Witness ==
    /\ pc = "vis5"
    /\ departamento_seleccionado = "Guatemala"
    /\ tipo_accidente_seleccionado = "colision"
    /\ tipo_vehiculo_seleccionado = "motocicleta"

----------------------------------------------------------------------------
(* Claims about normalization (SpecNorm) *)

\* the functions that unroll value columns into records
CuadrosLargos == {"cuadro1", "cuadro3", "cuadro7", "cuadro9", "cuadro18", "cuadro31",
                  "cuadro47"}
\* the functions that coerce the measure to integer
CuadrosConCoercion == {"cuadro1", "cuadro31", "cuadro47"}

\* the columns a function names as identifier or value columns
Requeridas(c) ==
    IF c \in CuadrosLargos
    THEN {IdCol(c)} \cup Rango(ValueVars(c))
         \cup (IF TieneTotal(c) THEN {"total"} ELSE {})
    ELSE {IdCol(c)}

\* whether the function's drop predicates remove the row
EsAgregada(c, f) == EsAgregadaId(c, f[IdCol(c)])

\* the cells of the value columns of the rows that survive the drop
\* predicates, as <<row, column>>
CeldasVivas ==
    {<<i, col>> \in (DOMAIN df.filas) \X Rango(ValueVars(cuadro)) :
        ~EsAgregada(cuadro, df.filas[i])}
CeldasEnteras == {p \in CeldasVivas : df.filas[p[1]][p[2]].t = "int"}

RECURSIVE SumaCeldas(_)
SumaCeldas(S) ==
    IF S = {} THEN 0
    ELSE LET p == CHOOSE x \in S : TRUE
         IN  df.filas[p[1]][p[2]].v + SumaCeldas(S \ {p})

RECURSIVE SumaMedida(_, _)
SumaMedida(regs, campo) ==
    IF regs = <<>> THEN 0 ELSE Head(regs)[campo].v + SumaMedida(Tail(regs), campo)

\* C6: for every raw table that has the columns the function names,
\* normalization returns records whose measures are integers, whose sum is
\* the sum of the value cells of the surviving rows less the cells that are
\* no integer, and as many records as there are integer cells.
C6_Conservacion ==
    (npc = "fin" /\ cuadro \in CuadrosLargos /\ Requeridas(cuadro) \subseteq df.columns) =>
        /\ salida.estado = "ok"
        /\ \A i \in DOMAIN salida.registros :
              salida.registros[i][Medida(cuadro)].t = "int"
        /\ SumaMedida(salida.registros, Medida(cuadro)) = SumaCeldas(CeldasEnteras)
        /\ Len(salida.registros) = Cardinality(CeldasEnteras)

\* C7: a cell that is no integer drops only its own record: the coercing
\* functions return, without raising, exactly one record for every integer
\* cell of the surviving rows.
C7_SoloLaCelda ==
    (/\ npc = "fin"
     /\ cuadro \in CuadrosConCoercion
     /\ Requeridas(cuadro) \subseteq df.columns) =>
        /\ salida.estado = "ok"
        /\ Len(salida.registros) = Cardinality(CeldasEnteras)
        /\ {<<r["departamento"], r["anio"], r[Medida(cuadro)]>> :
                r \in Rango(salida.registros)}
           = {<<df.filas[p[1]]["departamento"], AnioInt(p[2]), df.filas[p[1]][p[2]]>> :
                p \in CeldasEnteras}

\* C8: every record a function returns has a non-negative integer measure.
C8_MedidaEntera ==
    (npc = "fin" /\ cuadro \in CuadrosLargos) =>
        \A i \in DOMAIN salida.registros :
            /\ salida.registros[i][Medida(cuadro)].t = "int"
            /\ salida.registros[i][Medida(cuadro)].v >= 0

\* C9: no returned record has an identifier value that a drop predicate of
\* its function removes ("Total"; also "Ignorada" for the hour table).
C9_SinTotal ==
    npc = "fin" =>
        \A i \in DOMAIN salida.registros : ~EsAgregada(cuadro, salida.registros[i])

\* C9 witness: the hour table with a "Total" row before a data row; only the
\* data row's seven records are returned.
C9_Witness ==
    /\ npc = "fin"
    /\ cuadro = "cuadro7"
    /\ salida.estado = "ok"
    /\ Len(df.filas) = 2
    /\ df.filas[1]["hora_de_ocurrencia"] = TxtTotal
    /\ df.filas[2]["hora_de_ocurrencia"] = TxtHora05
    /\ Len(salida.registros) = 7

\* C10: when a column the function names as identifier or value column is
\* absent from the raw table, the function raises KeyError and returns no
\* record.
C10_ColumnaAusente ==
    (npc = "fin" /\ ~(Requeridas(cuadro) \subseteq df.columns)) =>
        /\ salida.estado = "KeyError"
        /\ salida.registros = <<>>

\* C10 witness: cuadro 1 without its last year column, with a data row.
C10_Witness ==
    /\ npc = "fin"
    /\ cuadro = "cuadro1"
    /\ "2024" \notin df.columns
    /\ "departamento" \in df.columns
    /\ \E i \in DOMAIN df.filas : df.filas[i]["departamento"] = "Guatemala"
    /\ salida.estado = "KeyError"

\* the columns a function removes from its output and never reads a value of
SoloEliminadas(c) ==
    ColsEliminar(c) \cup (IF TieneTotal(c) /\ c \in CuadrosLargos THEN {"total"} ELSE {})

\* the table with column x added, filled as the source fills it
ConColumna(t, x) ==
    [columns |-> t.columns \cup {x},
     filas |-> [i \in DOMAIN t.filas |->
                  [col \in t.columns \cup {x} |->
                      IF col # x THEN t.filas[i][col]
                      ELSE IF x = "total" THEN Num(7) ELSE "INE"]]]

\* C11: normalizing a raw table that lacks one column the function only
\* removes (fuente_cuadro, 'Unnamed: 6', col_10, col_12, or the 'total' the
\* long tables drop after unrolling) has the same outcome, records included,
\* as normalizing the table with that column present.
C11_EliminadaAusente ==
    npc = "fin" =>
        \A x \in SoloEliminadas(cuadro) :
            df.columns = TodasColumnas(cuadro) \ {x} =>
                salida = Limpieza(cuadro, ConColumna(df, x))

EsEtiquetaDeHora(s) ==
    /\ Len(s) = 13
    /\ s[1] \in Digitos /\ s[2] \in Digitos
    /\ SubSeq(s, 3, 8) = <<":", "0", "0", " ", "a", " ">>
    /\ SubSeq(s, 9, 10) = SubSeq(s, 1, 2)
    /\ SubSeq(s, 11, 13) = <<":", "5", "9">>

HoraDeEtiqueta(s) == 10 * DigitoInt(s[1]) + DigitoInt(s[2])

\* C16: every record of the hour table whose label is "HH:00 a HH:59" has
\* hora_num = HH, a whole number in 0..23.
C16_HoraInicial ==
    (npc = "fin" /\ cuadro = "cuadro7") =>
        \A i \in DOMAIN salida.registros :
            LET r == salida.registros[i]
            IN  EsEtiquetaDeHora(r["hora_de_ocurrencia"]) =>
                    /\ r["hora_num"] = Num(HoraDeEtiqueta(r["hora_de_ocurrencia"]))
                    /\ r["hora_num"].v \in 0..23

\* C16 witness: the rows "05:00 a 05:59" and "00:00 a 00:59" give records
\* with hora_num 5 and 0.
C16_Witness ==
    /\ npc = "fin"
    /\ cuadro = "cuadro7"
    /\ salida.estado = "ok"
    /\ \E i, j \in DOMAIN salida.registros :
          /\ salida.registros[i]["hora_de_ocurrencia"] = TxtHora05
          /\ salida.registros[i]["hora_num"] = Num(5)
          /\ salida.registros[j]["hora_de_ocurrencia"] = TxtHora00
          /\ salida.registros[j]["hora_num"] = Num(0)

\* the tables with a derived key, and the field that holds it
CuadrosConClave == {"cuadro7", "cuadro9"}

ClaveDerivada(c) == IF c = "cuadro7" THEN "hora_num" ELSE "mes_num"

\* the table without the rows from whose identifier no key is derived
SinFilasSinClave(c, t) ==
    [columns |-> t.columns,
     filas |-> SelectSeq(t.filas, LAMBDA f : f[IdCol(c)] \notin IdsSinClave(c))]

\* C17: a table with every named column and a row whose hour label holds no
\* "digits:", or whose month is none of the twelve names, is cleaned without
\* an exception; that row's records are returned with the derived key unset
\* (NaN), and the records of the other rows are those the table yields
\* without that row.
C17_ClaveSinValor ==
    (/\ npc = "fin"
     /\ cuadro \in CuadrosConClave
     /\ Requeridas(cuadro) \subseteq df.columns
     /\ \E i \in DOMAIN df.filas : df.filas[i][IdCol(cuadro)] \in IdsSinClave(cuadro)) =>
        /\ salida.estado = "ok"
        /\ \A i \in DOMAIN df.filas :
              df.filas[i][IdCol(cuadro)] \in IdsSinClave(cuadro) =>
                  \E k \in DOMAIN salida.registros :
                      /\ salida.registros[k][IdCol(cuadro)] = df.filas[i][IdCol(cuadro)]
                      /\ salida.registros[k][ClaveDerivada(cuadro)] = NaN
        /\ Rango(Limpieza(cuadro, SinFilasSinClave(cuadro, df)).registros)
              = {r \in Rango(salida.registros) : r[IdCol(cuadro)] \notin IdsSinClave(cuadro)}

\* The month half of C17: limpiar_cuadro9 returns the records of a month it
\* does not know, with mes_num unset.
MesDesconocido ==
    /\ npc = "fin"
    /\ cuadro = "cuadro9"
    /\ salida.estado = "ok"
    /\ \E k \in DOMAIN salida.registros :
          /\ salida.registros[k]["mes_de_ocurrencia"] = "Ene"
          /\ salida.registros[k]["mes_num"] = NaN

\* the field that holds the category of a record, and the category a value
\* column gives: its name, as an integer for the year columns (astype(int))
VarName(c) ==
    CASE c \in CuadrosConCoercion -> "anio"
      [] c \in {"cuadro3", "cuadro7"} -> "dia_semana"
      [] c \in {"cuadro9", "cuadro18"} -> "tipo_accidente"

Categoria(c, col) == IF c \in CuadrosConCoercion THEN AnioInt(col) ELSE col

\* the cells of the surviving rows that are not discarded: dropna discards
\* the missing cells in the functions that coerce
CeldasEmitidas ==
    {p \in CeldasVivas :
        ~(cuadro \in CuadrosConCoercion /\ df.filas[p[1]][p[2]] = NaN)}

TernaDeRegistro(r) == <<r[IdCol(cuadro)], r[VarName(cuadro)], r[Medida(cuadro)]>>

TernaDeCelda(p) ==
    <<df.filas[p[1]][IdCol(cuadro)], Categoria(cuadro, p[2]), df.filas[p[1]][p[2]]>>

\* C22: when an unrolling function returns, it returns one record for each
\* cell of a surviving row and a value column that is not discarded, with
\* the row's identifier, the column's name as category and the cell's value
\* as measure: as many records as such cells, and each (identifier,
\* category, measure) as often among the records as among the cells.
C22_UnRegistroPorCelda ==
    (npc = "fin" /\ cuadro \in CuadrosLargos /\ salida.estado = "ok") =>
        /\ Len(salida.registros) = Cardinality(CeldasEmitidas)
        /\ \A t \in {TernaDeCelda(p) : p \in CeldasVivas}
                    \cup {TernaDeRegistro(salida.registros[k]) :
                             k \in DOMAIN salida.registros} :
              Cardinality({k \in DOMAIN salida.registros :
                              TernaDeRegistro(salida.registros[k]) = t})
                = Cardinality({p \in CeldasEmitidas : TernaDeCelda(p) = t})

\* C22 witness: cuadro 1 with a "Total" row and a row whose first year cell
\* is missing: 1 * 5 - 1 = 4 records.
C22_Witness ==
    /\ npc = "fin"
    /\ cuadro = "cuadro1"
    /\ salida.estado = "ok"
    /\ Len(df.filas) = 2
    /\ df.filas[1]["departamento"] = "Total"
    /\ df.filas[2]["departamento"] = "Guatemala"
    /\ df.filas[2]["2020"] = NaN
    /\ Len(salida.registros) = 4

----------------------------------------------------------------------------
(* Claims about main() of the preprocessing (SpecMain) *)

MainTerminado == mpc.fase \in {"fin", "excepcion", "error_carga"}

\* C13: when main() has ended and every raw file was there, each table whose
\* own cleaning succeeds has its cleaned file written, with the records its
\* cleaning function returns, whichever other table failed.
C13_FalloAislado ==
    (MainTerminado /\ \A c \in CUADROS : crudos[c].existe) =>
        \A c \in CUADROS :
            Limpieza(c, crudos[c].tabla).estado = "ok" =>
                /\ data_clean[c].escrito
                /\ data_clean[c].registros = Limpieza(c, crudos[c].tabla).registros

----------------------------------------------------------------------------
(* Claims about the view functions (SpecVis) *)

\* C12: for every cleaned hour table, one with no record for some weekday
\* included, crear_vis4_heatmap returns a pivot with exactly the seven
\* weekday columns in the order lunes .. domingo, every hour row having a
\* number or a null under each of them.
C12_SieteDias ==
    (vpc = "fin" /\ vista = "vis4") =>
        /\ fig.estado = "ok"
        /\ fig.columns = DIAS
        /\ \A i \in DOMAIN fig.z : DOMAIN fig.z[i] = 1..7

\* the sum of the measures of the records at the indices I
RECURSIVE SumaIndices(_, _, _)
SumaIndices(regs, I, medida) ==
    IF I = {} THEN 0
    ELSE LET i == CHOOSE x \in I : TRUE
         IN  (IF regs[i][medida].t = "int" THEN regs[i][medida].v ELSE 0)
             + SumaIndices(regs, I \ {i}, medida)

RECURSIVE SumaGrupos(_, _)
SumaGrupos(g, K) ==
    IF K = {} THEN 0
    ELSE LET k == CHOOSE x \in K : TRUE IN g[k] + SumaGrupos(g, K \ {k})

\* g holds, for each key that occurs in regs and for no other, the sum of
\* the measures of the records with that key
SumaPorClave(g, regs, claves, medida) ==
    /\ DOMAIN g = {Clave(regs[i], claves) : i \in DOMAIN regs}
    /\ \A k \in DOMAIN g :
          g[k] = SumaIndices(regs, {i \in DOMAIN regs : Clave(regs[i], claves) = k},
                             medida)
    /\ SumaGrupos(g, DOMAIN g) = SumaIndices(regs, DOMAIN regs, medida)

\* the yearly series of crear_vis6 as a function of the year; no year twice
SerieComoGrupos(puntos) ==
    [k \in {<<puntos[i][1]>> : i \in DOMAIN puntos} |->
        (CHOOSE i \in DOMAIN puntos : puntos[i][1] = k[1])]

\* C20: each group-by of the views sums the measure over the records with
\* the group's key: df_agrupado of the time series (over the records of the
\* departments shown), df_agrupado of the vehicle chart and the two yearly
\* series of the comparison chart hold one entry per key of their input, its
\* value the sum of that key's records, and the groups add up to the input.
C20_SumaPorGrupo ==
    /\ (vpc = "fin" /\ vista = "vis2") =>
          LET mostrados == Rango(arg.deptos_seleccionados)
                           \cup (IF arg.depto_desde_vis1 # None
                                 THEN {arg.depto_desde_vis1} ELSE {})
              entrada == SelectSeq(tabla.df_accidentes,
                                   LAMBDA r : r["departamento"] \in mostrados)
          IN  SumaPorClave(fig.df_agrupado, entrada, <<"anio", "departamento">>,
                           "accidentes")
    /\ (vpc = "fin" /\ vista = "vis5") =>
          SumaPorClave(fig.df_agrupado, tabla.df_vehiculos, <<"tipo_de_vehiculo">>,
                       "cantidad")
    /\ (vpc = "fin" /\ vista = "vis6" /\ fig.agrupado) =>
          /\ \A i, j \in DOMAIN fig.fallecidos :
                fig.fallecidos[i][1] = fig.fallecidos[j][1] => i = j
          /\ \A i, j \in DOMAIN fig.lesionados :
                fig.lesionados[i][1] = fig.lesionados[j][1] => i = j
          /\ SumaPorClave([k \in DOMAIN SerieComoGrupos(fig.fallecidos) |->
                              fig.fallecidos[SerieComoGrupos(fig.fallecidos)[k]][2]],
                          tabla.df_fallecidos, <<"anio">>, "fallecidos")
          /\ SumaPorClave([k \in DOMAIN SerieComoGrupos(fig.lesionados) |->
                              fig.lesionados[SerieComoGrupos(fig.lesionados)[k]][2]],
                          tabla.df_lesionados, <<"anio">>, "lesionados")

\* C20 witness: the time series of a table with two Guatemala rows and an
\* Escuintla filter left out: the 2020 group of Guatemala is the sum 1 + 2.
C20_Witness ==
    /\ vpc = "fin"
    /\ vista = "vis2"
    /\ arg.deptos_seleccionados = <<"Guatemala">>
    /\ Len(tabla.df_accidentes) = 10
    /\ \A i \in DOMAIN tabla.df_accidentes :
          tabla.df_accidentes[i]["departamento"] = "Guatemala"
    /\ fig.df_agrupado[<<2020, "Guatemala">>] = 3
    /\ fig.df_agrupado[<<2024, "Guatemala">>] = 2

----------------------------------------------------------------------------
(* Claims about missing files and the reset handler (Spec) *)

\* no view of the current run has been drawn
NadaDibujado ==
    /\ info_sidebar = SinInfo
    /\ vis1_resaltado = SinDibujar
    /\ vis2_depto = SinDibujar
    /\ vis3_resaltado = SinDibujar
    /\ vis3_1_tipo = SinDibujar
    /\ vis5_resaltado = SinDibujar
    /\ vis_modelos \in {SinDibujar, "error"}

\* C14: a run of the dashboard in which a cleaned data file or the metrics
\* file is missing ends with an error reported and no view drawn.
C14_FaltaArchivo ==
    (pc = "idle" /\ (~archivos.limpios \/ ~archivos.metricas)) =>
        /\ error_datos \/ vis_modelos = "error"
        /\ NadaDibujado

\* C18: a run started by an interaction that arrived while the reset handler
\* was between its assignments never shows a slot that still holds a value:
\* the sidebar's list of active selections is read with the three slots empty.
C18_ResetAtomico ==
    (origen = "widget_en_reset" /\ info_sidebar # SinInfo) =>
        info_sidebar = <<None, None, None>>

----------------------------------------------------------------------------
(* Claims about the views and the loaded tables (SpecVis) *)

----------------------------------------------------------------------------
(* Claims about the slots and their selectors (Spec) *)

\* a script run that reached its last statement
CorridaCompleta == pc \in {"fin", "idle"} /\ ~error_datos

\* C23: when a script run is complete, the slot of every selector the run
\* rendered holds the selector's value, and None exactly when the selector
\* shows 'Ninguno'; the run that follows a reset is no exception.
C23_SlotIgualSelector ==
    CorridaCompleta =>
        /\ VeDistribucion =>
              /\ departamento_seleccionado = ValorDeSelector(selector_depto)
              /\ (departamento_seleccionado = None) <=> (selector_depto = Ninguno)
        /\ VeTopTipos =>
              /\ tipo_accidente_seleccionado = ValorDeSelector(selector_tipo)
              /\ (tipo_accidente_seleccionado = None) <=> (selector_tipo = Ninguno)
        /\ VeVehiculos =>
              /\ tipo_vehiculo_seleccionado = ValorDeSelector(selector_veh)
              /\ (tipo_vehiculo_seleccionado = None) <=> (selector_veh = Ninguno)

\* C23 witness: the run that follows a reset is complete, the department
\* selector still shows the department chosen before the reset, and the slot
\* holds it again.
C23_Witness ==
    /\ pc = "idle"
    /\ ~error_datos
    /\ origen = "rerun"
    /\ VeDistribucion
    /\ selector_depto = "Guatemala"
    /\ departamento_seleccionado = "Guatemala"

\* C24: while the view that hosts a slot's selector is hidden, no step of a
\* script run changes that slot, but the assignment of the reset handler.
C24_OcultaNoCambia ==
    [][/\ (~VeDistribucion /\ pc # "reset_depto") =>
            departamento_seleccionado' = departamento_seleccionado
       /\ (~VeTopTipos /\ pc # "reset_tipo") =>
            tipo_accidente_seleccionado' = tipo_accidente_seleccionado
       /\ (~VeVehiculos /\ pc # "reset_veh") =>
            tipo_vehiculo_seleccionado' = tipo_vehiculo_seleccionado]_vars

\* C24 witness: a complete run with the department chart hidden and the time
\* series shown, drawn with the department selected in an earlier run.
C24_Witness ==
    /\ pc = "idle"
    /\ ~error_datos
    /\ ~VeDistribucion
    /\ VeSerie
    /\ departamento_seleccionado = "Guatemala"
    /\ vis2_depto = "Guatemala"

----------------------------------------------------------------------------
(* Claims about what the views show (SpecVis) *)

\* the departments of the traces of the time series, in the order drawn
DeptosMostrados == [i \in DOMAIN fig.trazas |-> fig.trazas[i].name]

\* C25: the time series built with a department in the slot shows that
\* department once, after the sidebar list when the list does not hold it,
\* and highlights it and no other; the sidebar list keeps its order. Built
\* with an empty slot it shows the sidebar list and highlights nothing.
C25_SerieConSeleccion ==
    (vpc = "fin" /\ vista = "vis2") =>
        LET l == arg.deptos_seleccionados
            d == arg.depto_desde_vis1
        IN  /\ fig.estado = "ok"
            /\ SubSeq(DeptosMostrados, 1, Len(l)) = l
            /\ d = None => DeptosMostrados = l
            /\ d # None =>
                  /\ Cardinality({i \in DOMAIN DeptosMostrados :
                                    DeptosMostrados[i] = d}) = 1
                  /\ d \in Rango(l) => DeptosMostrados = l
                  /\ d \notin Rango(l) => DeptosMostrados = Append(l, d)
            /\ \A i \in DOMAIN fig.trazas :
                  fig.trazas[i].resaltado <=> (d # None /\ DeptosMostrados[i] = d)

\* C25 witness: the sidebar list holds Guatemala, Escuintla is selected in
\* the department chart: Escuintla is drawn second and highlighted.
C25_Witness ==
    /\ vpc = "fin"
    /\ vista = "vis2"
    /\ arg.deptos_seleccionados = <<"Guatemala">>
    /\ arg.depto_desde_vis1 = "Escuintla"
    /\ DeptosMostrados = <<"Guatemala", "Escuintla">>
    /\ ~fig.trazas[1].resaltado
    /\ fig.trazas[2].resaltado

\* the records the top-types view counts: those of the quarter, or all
RegistrosDelRango ==
    IF arg.rango = "Anio completo" THEN tabla.df_tipos
    ELSE SelectSeq(tabla.df_tipos, LAMBDA r :
             r["mes_num"].t = "int" /\ r["mes_num"].v \in MesesDeRango(arg.rango))

SumaDelTipo(t) ==
    SumaSerie(SelectSeq(RegistrosDelRango, LAMBDA r : r["tipo_accidente"] = t),
              "cantidad")

TiposDevueltos ==
    [i \in DOMAIN fig.df_agrupado |-> fig.df_agrupado[i]["tipo_accidente"]]

TotalDevuelto ==
    SumaSerie([i \in DOMAIN fig.df_agrupado |->
                  [cantidad |-> Num(fig.df_agrupado[i]["cantidad"])]], "cantidad")

\* C26: the top-types view returns at most ten types, each once and with its
\* summed count, by ascending count; no type it leaves out has a greater
\* count than one it returns; a percentage is the count over the total of
\* the returned types, to the nearest tenth; and the selector offers
\* 'Ninguno' and the returned types.
C26_TopTipos ==
    (vpc = "fin" /\ vista = "vis3") =>
        LET top == fig.df_agrupado
            devueltos == Rango(TiposDevueltos)
            presentes == {RegistrosDelRango[i]["tipo_accidente"] :
                             i \in DOMAIN RegistrosDelRango}
        IN  /\ Len(top) <= 10
            /\ Cardinality(devueltos) = Len(top)
            /\ devueltos \subseteq presentes
            /\ Len(top) = IF Cardinality(presentes) <= 10
                          THEN Cardinality(presentes) ELSE 10
            /\ \A i \in DOMAIN top :
                  top[i]["cantidad"] = SumaDelTipo(top[i]["tipo_accidente"])
            /\ \A i, j \in DOMAIN top :
                  i < j => top[i]["cantidad"] <= top[j]["cantidad"]
            /\ \A t \in presentes \ devueltos : \A i \in DOMAIN top :
                  SumaDelTipo(t) <= top[i]["cantidad"]
            /\ TotalDevuelto > 0 =>
                  \A i \in DOMAIN top :
                      LET e == top[i]["porcentaje"].v * TotalDevuelto
                                 - 1000 * top[i]["cantidad"]
                      IN  /\ top[i]["porcentaje"].t = "int"
                          /\ 2 * e <= TotalDevuelto
                          /\ 0 - 2 * e <= TotalDevuelto
            /\ fig.opciones = <<Ninguno>> \o TiposDevueltos

\* C26 witness: a file with eleven types of which one counts 1 and the
\* others 2: the view returns the ten that count 2.
C26_Witness ==
    /\ vpc = "fin"
    /\ vista = "vis3"
    /\ arg.rango = "Anio completo"
    /\ Len(tabla.df_tipos) = 11
    /\ Len(fig.df_agrupado) = 10
    /\ SumaDelTipo("choque") = 1
    /\ "choque" \notin Rango(TiposDevueltos)
    /\ \A i \in DOMAIN fig.df_agrupado : fig.df_agrupado[i]["cantidad"] = 2
    /\ Len(fig.opciones) = 11

TRIMESTRES == <<"Q1", "Q2", "Q3", "Q4">>

\* what the top-types view returns for the loaded file under each filter
TopPorRango ==
    [r \in RANGOS |-> crear_vis3_top_tipos(tabla.df_tipos, r, None).df_agrupado]

\* the count a returned frame gives type t, 0 when it does not list the type
CantidadEn(top, t) ==
    LET donde == {i \in DOMAIN top : top[i]["tipo_accidente"] = t}
    IN  IF donde = {} THEN 0 ELSE top[CHOOSE i \in donde : TRUE]["cantidad"]

\* the count of the records of type t whose month number is unset
CantidadSinMes(t) ==
    SumaSerie(SelectSeq(tabla.df_tipos, LAMBDA r :
                  r["tipo_accidente"] = t /\ r["mes_num"] = NaN), "cantidad")

\* C27: the quarter filters select disjoint sets of months that together are
\* 1..12; for every accident type, the counts of the four quarters and the
\* count of the records without a month number add up to the count of
\* 'Anio completo', so the four quarters alone do when every record has a
\* month number.
C27_Trimestres ==
    (vpc = "fin" /\ vista = "vis3") =>
        /\ \A i, j \in DOMAIN TRIMESTRES :
              i # j => MesesDeRango(TRIMESTRES[i]) \cap MesesDeRango(TRIMESTRES[j]) = {}
        /\ UNION {MesesDeRango(TRIMESTRES[i]) : i \in DOMAIN TRIMESTRES} = 1..12
        /\ LET tops == TopPorRango
           IN  \A t \in Rango(TIPOS_ORDENADOS) :
                   CantidadEn(tops["Q1"], t) + CantidadEn(tops["Q2"], t)
                     + CantidadEn(tops["Q3"], t) + CantidadEn(tops["Q4"], t)
                     + CantidadSinMes(t)
                   = CantidadEn(tops["Anio completo"], t)

\* C27 witness: a file with the rows of January and of a month without
\* number, drawn for Q1: a type counts 1 in Q1, 0 in the other quarters and
\* 2 in the whole year.
C27_Witness ==
    /\ vpc = "fin"
    /\ vista = "vis3"
    /\ arg.rango = "Q1"
    /\ \E i \in DOMAIN tabla.df_tipos : tabla.df_tipos[i]["mes_num"] = NaN
    /\ CantidadSinMes("atropello") = 1
    /\ CantidadEn(TopPorRango["Q1"], "atropello") = 1
    /\ CantidadEn(TopPorRango["Q4"], "atropello") = 0
    /\ CantidadEn(TopPorRango["Anio completo"], "atropello") = 2
    /\ \E i \in DOMAIN fig.df_agrupado :
          /\ fig.df_agrupado[i]["tipo_accidente"] = "atropello"
          /\ fig.df_agrupado[i]["cantidad"] = 1

\* the twelve month names of the raw table
MESES == {"Enero", "Febrero", "Marzo", "Abril", "Mayo", "Junio", "Julio", "Agosto",
          "Septiembre", "Octubre", "Noviembre", "Diciembre"}

\* C30: the number normalization gives a month name is in 1..12, no two
\* names get the same number, every number of 1..12 is given, and the
\* monthly-evolution view turns the number back into the name; the months
\* the view lists are in ascending month number.
C30_MesesInversos ==
    (vpc = "fin" /\ vista = "vis3_1") =>
        /\ \A m \in MESES :
              /\ meses_dict(m).t = "int"
              /\ meses_dict(m).v \in 1..12
              /\ meses_nombres(meses_dict(m).v) = m
        /\ \A m, n \in MESES : meses_dict(m) = meses_dict(n) => m = n
        /\ {meses_dict(m).v : m \in MESES} = 1..12
        /\ \A i \in DOMAIN fig.x : fig.x[i] \in MESES
        /\ \A i, j \in DOMAIN fig.x :
              i < j => meses_dict(fig.x[i]).v < meses_dict(fig.x[j]).v
        /\ arg.tipo_seleccionado # None =>
              Rango(fig.x) = {tabla.df_tipos[i]["mes_de_ocurrencia"] :
                                i \in {k \in DOMAIN tabla.df_tipos :
                                    /\ tabla.df_tipos[k]["mes_de_ocurrencia"] \in MESES
                                    /\ tabla.df_tipos[k]["tipo_accidente"]
                                         = arg.tipo_seleccionado}}

\* C30 witness: the file holds the records of December before those of
\* January; the view lists January, then December.
C30_Witness ==
    /\ vpc = "fin"
    /\ vista = "vis3_1"
    /\ arg.tipo_seleccionado = "colision"
    /\ tabla.df_tipos # <<>>
    /\ tabla.df_tipos[1]["mes_de_ocurrencia"] = "Diciembre"
    /\ fig.x = <<"Enero", "Diciembre">>

----------------------------------------------------------------------------
(* Claims about the models tab (SpecVis) *)

\* the class labels of a classifier
EtiquetasDelModelo(modelo_key) ==
    IF modelo_key = "modelo1_gravedad" THEN <<"Baja Gravedad", "Alta Gravedad">>
    ELSE <<"Riesgo Bajo", "Riesgo Medio", "Riesgo Alto">>

\* C28: the confusion-matrix chart of a displayed classifier and algorithm
\* has one label per row and per column of the matrix, and the labels are
\* those of the model's classes.
C28_EtiquetasDeMatriz ==
    (vpc = "fin" /\ vista = "matriz" /\ "z" \in DOMAIN fig) =>
        /\ Len(fig.y) = Len(fig.z)
        /\ \A i \in DOMAIN fig.z : Len(fig.x) = Len(fig.z[i])
        /\ fig.x = EtiquetasDelModelo(arg.modelo_key)
        /\ fig.y = EtiquetasDelModelo(arg.modelo_key)

\* the models checked, in the order of the checkboxes
ModelosMarcados == SelectSeq(MODELOS, LAMBDA m : arg.checks[m])

\* whether algorithm i of a model is its best: no algorithm has a better
\* main metric (f1_score, missing as 0, the greater the better; rmse, missing
\* as infinite, the less the better) and none before it has one as good
EsElMejor(modelo_key, i) ==
    LET items == tabla.modelos_data[modelo_key].metricas
        f1(k) == IF "f1_score" \in DOMAIN items[k].met
                 THEN items[k].met["f1_score"] ELSE 0
        sinRmse(k) == "rmse" \notin DOMAIN items[k].met
        mejorQue(j, k) ==
            IF modelo_key = "modelo2_cantidad"
            THEN ~sinRmse(j) /\ (sinRmse(k) \/ items[j].met["rmse"] < items[k].met["rmse"])
            ELSE f1(j) > f1(k)
    IN  /\ \A j \in DOMAIN items : ~mejorQue(j, i)
        /\ \A j \in 1..(i - 1) : mejorQue(i, j)

\* C29: with fewer than two models checked no comparison table is made;
\* otherwise the table has one row per checked model, in the order model 1,
\* model 2, model 3, and the row names the model's best algorithm.
C29_MejorAlgoritmo ==
    (vpc = "fin" /\ vista = "comparacion") =>
        IF Len(ModelosMarcados) < 2
        THEN fig.estado = "aviso" /\ fig.filas = <<>>
        ELSE /\ fig.estado = "ok"
             /\ Len(fig.filas) = Len(ModelosMarcados)
             /\ \A i \in DOMAIN fig.filas :
                   LET items == tabla.modelos_data[ModelosMarcados[i]].metricas
                   IN  \E k \in DOMAIN items :
                           /\ EsElMejor(ModelosMarcados[i], k)
                           /\ fig.filas[i].Algoritmo = items[k].nombre

\* The artifacts in which the best algorithm of every model has its main
\* metric: for them C29 holds.
MejorConMetrica ==
    \A m \in Rango(MODELOS) :
        LET items == tabla.modelos_data[m].metricas
        IN  \A k \in DOMAIN items :
                EsElMejor(m, k) =>
                    (IF m = "modelo2_cantidad" THEN "rmse" ELSE "f1_score")
                        \in DOMAIN items[k].met

C29_ConMetrica ==
    (vpc = "fin" /\ vista = "comparacion" /\ MejorConMetrica) => C29_MejorAlgoritmo
====
